---- MODULE Spec2Model ----
(***************************************************************************)
(* Air-cargo booking lifecycle (backend/controllers/bookingController.js   *)
(* and backend/models/Booking.js) as a state machine.                      *)
(*                                                                         *)
(* The document store executes one query or one findOneAndUpdate at a      *)
(* time (each is atomic on a single document); the controller code that    *)
(* runs between two awaits is a step of the calling request.  Requests     *)
(* are interleaved freely.  At most NumCallers lifecycle requests are in   *)
(* flight together; when all of them have returned, new ones may be made,  *)
(* without end.                                                            *)
(***************************************************************************)
EXTENDS Integers, Sequences, FiniteSets, TLC

VARIABLES
    bookings,   \* the bookings collection: sequence of documents, _id = index
    clock,      \* wall clock read by new Date()
    creators,   \* createBooking requests in flight
    callers,    \* departBooking / arriveBooking / cancelBooking requests
    catalog,    \* the flights collection: set of documents
    zone,       \* the offset of the server's local time from UTC
    finder,     \* the getRoutes request
    editor      \* a document of the collection loaded, edited and saved

vars == <<bookings, clock, creators, callers, catalog, zone, finder, editor>>

----------------------------------------------------------------------------
(* Bounds of the model *)

NumCreators == 2
NumCallers == 2
MaxTime == 1
DayLen == 1
MaxFlightRefs == 2
MaxCatalog == 3
TicksPerDay == 2

----------------------------------------------------------------------------
(* Program constants *)

RefIdPadWidth == 6

Statuses == {"BOOKED", "DEPARTED", "ARRIVED", "DELIVERED", "CANCELLED"}

\* a depart that may be repeated
validStatusesForDepartureRepeat == {"BOOKED", "DEPARTED"}

\* a depart that also accepts a cancelled booking
validStatusesForDepartureAfterCancel == {"BOOKED", "CANCELLED"}

\* a depart that also accepts a booking that has arrived
validStatusesForDepartureAfterArrival == {"BOOKED", "ARRIVED"}

validStatusesForDeparture == {"BOOKED"}

\* an arrive that also accepts a cancelled booking
validStatusesForArrivalAny == {"DEPARTED", "BOOKED", "CANCELLED"}

\* an arrive that may be repeated
validStatusesForArrivalRepeat == {"DEPARTED", "BOOKED", "ARRIVED"}

validStatusesForArrival == {"DEPARTED", "BOOKED"}

\* a cancel whose filter does not exclude ARRIVED
validStatusesForCancellationArrived == {"BOOKED", "DEPARTED", "ARRIVED"}

validStatusesForCancellation == {"BOOKED", "DEPARTED"}

\* The Error messages thrown by the controller
MsgNotFound == "Booking not found"
MsgInvalidFlights == "One or more flight IDs are invalid"
MsgCannotDepart == "Cannot depart booking with status"
MsgCannotArrive == "Cannot arrive booking with status"
MsgAlreadyArrived == "Cannot cancel booking that has already ARRIVED"
MsgCannotCancel == "Cannot cancel booking with status"
MsgUpdateFailed == "Booking update failed. The booking may have been modified by another operation."
MsgCancelFailed == "Booking cancellation failed. The booking may have been modified by another operation or has already ARRIVED."
MsgDuplicateKey == "E11000 duplicate key error"

\* The errors of the 400 responses of POST /api/bookings
MsgMissingFields == "Missing required fields"
MsgInvalidPieces == "Invalid pieces"
MsgInvalidWeight == "Invalid weight_kg"

\* The error kinds of the specification, by message
ErrorKind(msg) ==
    CASE msg = MsgNotFound -> "NotFound"
      [] msg = MsgInvalidFlights -> "InvalidFlightReference"
      [] msg \in {MsgCannotDepart, MsgCannotArrive, MsgAlreadyArrived, MsgCannotCancel}
            -> "InvalidTransition"
      [] msg \in {MsgUpdateFailed, MsgCancelFailed} -> "ConcurrencyConflict"
      [] msg = MsgDuplicateKey -> "DuplicateRefId"
      [] msg \in {MsgMissingFields, MsgInvalidPieces, MsgInvalidWeight}
            -> "ValidationError"
      [] OTHER -> "none"

----------------------------------------------------------------------------
(* The flights collection.  Instants are Dates: milliseconds from 00:00 UTC
   of day 0.  A day is divided in TicksPerDay ticks; a flight is a leg between
   two of three airports, departs at a tick and arrives one or, between HYD
   and BLR, one or two ticks later. *)

MsPerDay == 86400000
MsPerMinute == 60000

MsPerTick == MsPerDay \div TicksPerDay

\* the ticks of days 0 to 3
Horizon == 4 * TicksPerDay - 1

DEL == <<"D", "E", "L">>
HYD == <<"H", "Y", "D">>
BLR == <<"B", "L", "R">>

Legs ==
    <<[origin |-> DEL, destination |-> HYD, ticks |-> {1}],
      [origin |-> HYD, destination |-> BLR, ticks |-> {1, 2}],
      [origin |-> DEL, destination |-> BLR, ticks |-> {1}]>>

\* every flight document that the collection may hold
AllFlights ==
    {[_id |-> 2 * ((k - 1) * (Horizon + 1) + t) + 1,
      origin |-> Legs[k].origin, destination |-> Legs[k].destination,
      departureDateTime |-> t * MsPerTick,
      arrivalDateTime |-> (t + 1) * MsPerTick] :
        k \in DOMAIN Legs, t \in 0..Horizon}
    \cup
    {[_id |-> 2 * ((k - 1) * (Horizon + 1) + t) + 2,
      origin |-> Legs[k].origin, destination |-> Legs[k].destination,
      departureDateTime |-> t * MsPerTick,
      arrivalDateTime |-> (t + 2) * MsPerTick] :
        k \in {k \in DOMAIN Legs : 2 \in Legs[k].ticks}, t \in 0..Horizon}

\* the collection while bookings are made: flight 1 exists, flight 2 does not
SeedCatalog == {f \in AllFlights : f._id = 1}

Flights == {f._id : f \in catalog}
FlightIdSpace == {1, 2}

SeqsUpTo(S, n) == UNION {[1..k -> S] : k \in 0..n}

FlightIdLists == SeqsUpTo(FlightIdSpace, MaxFlightRefs)

Range(s) == {s[i] : i \in DOMAIN s}

\* Flight.find({_id: {$in: flightIds}}): the catalog flights named in the list
validFlights(flightIds) == {f \in Flights : f \in Range(flightIds)}

\* the Flight document of an _id, as populate('flightIds') loads it
FlightDoc(f) == [_id |-> f]

\* booking.populate('flightIds')
populate(flightIds) == [i \in DOMAIN flightIds |-> FlightDoc(flightIds[i])]

----------------------------------------------------------------------------
(* Strings of text: sequences of one-character strings *)

toUpperCaseChar(ch) ==
    CASE ch = "b" -> "B"
      [] ch = "d" -> "D"
      [] ch = "e" -> "E"
      [] ch = "h" -> "H"
      [] ch = "k" -> "K"
      [] ch = "l" -> "L"
      [] ch = "o" -> "O"
      [] ch = "r" -> "R"
      [] ch = "y" -> "Y"
      [] OTHER -> ch

toUpperCase(s) == [i \in DOMAIN s |-> toUpperCaseChar(s[i])]

RECURSIVE trimStart(_)
trimStart(s) ==
    IF Len(s) > 0 /\ s[1] = " " THEN trimStart(Tail(s)) ELSE s

RECURSIVE trimEnd(_)
trimEnd(s) ==
    IF Len(s) > 0 /\ s[Len(s)] = " " THEN trimEnd(SubSeq(s, 1, Len(s) - 1)) ELSE s

trim(s) == trimEnd(trimStart(s))

----------------------------------------------------------------------------
(* The bookingData submitted to createBooking *)

Cargoes ==
    {[origin |-> <<"d", "e", "l">>, destination |-> <<"B", "L", "R">>,
      pieces |-> 1, weight_kg |-> 0],
     [origin |-> <<" ", "D", "e", "l">>, destination |-> <<"b", "l", "r", " ">>,
      pieces |-> 12, weight_kg |-> 5]}

\* the cargo of the requests whose cargo does not matter
PlainCargo == [origin |-> <<"d", "e", "l">>, destination |-> <<"B", "L", "R">>,
               pieces |-> 1, weight_kg |-> 0]

BookingData(cargo, flightIds) ==
    [origin |-> cargo.origin, destination |-> cargo.destination,
     pieces |-> cargo.pieces, weight_kg |-> cargo.weight_kg,
     flightIds |-> flightIds]

\* every cargo with every list of flight ids
AllBookingData == {BookingData(cargo, f) : cargo \in Cargoes, f \in FlightIdLists}

\* the plain cargo with every list of flight ids
PlainBookingData == {BookingData(PlainCargo, f) : f \in FlightIdLists}

----------------------------------------------------------------------------
(* ref_id = BOOK-YYYYMMDD-NNNNNN: the prefix, the date and the string of
   digits *)

BookPrefix == <<"B", "O", "O", "K">>

DayOf(t) == t \div DayLen

RECURSIVE toString(_)
toString(n) == IF n < 10 THEN <<n>> ELSE toString(n \div 10) \o <<n % 10>>

RECURSIVE padStart(_, _)
padStart(s, w) == IF Len(s) >= w THEN s ELSE padStart(<<0>> \o s, w)

RECURSIVE parseInt(_)
parseInt(s) == IF Len(s) = 0 THEN 0
               ELSE 10 * parseInt(SubSeq(s, 1, Len(s) - 1)) + s[Len(s)]

\* the order of strings: sort({ref_id: -1}) compares code units
StrLess(a, b) ==
    \E i \in 1..(Len(b)) :
        /\ \A j \in 1..(i - 1) : j <= Len(a) /\ a[j] = b[j]
        /\ \/ i = Len(a) + 1
           \/ i <= Len(a) /\ a[i] < b[i]

RefId(date, sequence) ==
    [prefix |-> BookPrefix, date |-> date,
     suffix |-> padStart(toString(sequence), RefIdPadWidth)]

\* a query for the last booking of any day
lastBookingAnyDay(date) ==
    LET all == {i \in DOMAIN bookings : bookings[i].ref_id.prefix = BookPrefix}
    IN  IF all = {} THEN <<>>
        ELSE LET i == CHOOSE i \in all :
                        \A j \in all :
                            ~StrLess(bookings[i].ref_id.suffix, bookings[j].ref_id.suffix)
             IN  <<bookings[i].ref_id>>

\* findOne({ref_id: {$regex: ^prefix}}).sort({ref_id: -1}): none is <<>>
lastBooking(date) ==
    LET todays == {i \in DOMAIN bookings : /\ bookings[i].ref_id.prefix = BookPrefix
                                            /\ bookings[i].ref_id.date = date}
    IN  IF todays = {} THEN <<>>
        ELSE LET i == CHOOSE i \in todays :
                        \A j \in todays :
                            ~StrLess(bookings[i].ref_id.suffix, bookings[j].ref_id.suffix)
             IN  <<bookings[i].ref_id>>

nextSequence(last) ==
    IF last = <<>> THEN 1 ELSE parseInt(last[1].suffix) + 1

----------------------------------------------------------------------------
(* Initial state: empty collection, no request started *)

NoDoc == <<>>

NoData == <<>>

IdleCreator ==
    [pc |-> "idle", data |-> NoData, today |-> 0, last |-> <<>>,
     doc |-> NoDoc, result |-> "none"]

IdleCaller ==
    [pc |-> "idle", kind |-> "none", arg |-> NoData, overlaps |-> {}, id |-> 0,
     seen |-> "none", ts |-> 0, result |-> "none", ret |-> NoDoc]

IdleFinder ==
    [pc |-> "idle", origin |-> <<>>, destination |-> <<>>, departureDate |-> 0,
     result |-> NoDoc]

IdleEditor ==
    [pc |-> "idle", id |-> 0, loaded |-> NoDoc, edited |-> NoDoc, doc |-> NoDoc]

Init ==
    /\ bookings = <<>>
    /\ clock = 0
    /\ creators = [c \in 1..NumCreators |-> IdleCreator]
    /\ callers = [p \in 1..NumCallers |-> IdleCaller]
    /\ catalog = SeedCatalog
    /\ zone = 0
    /\ finder = IdleFinder
    /\ editor = IdleEditor

Tick ==
    /\ clock < MaxTime
    /\ clock' = clock + 1
    /\ UNCHANGED <<bookings, creators, callers, catalog, zone, finder, editor>>

----------------------------------------------------------------------------
(* createBooking and the two pre('save') hooks *)

\* createBooking up to the query of the ref_id hook
CreateBegin(c, bookingData) ==
    /\ creators[c].pc = "idle"
    /\ \A d \in 1..(c - 1) : creators[d].pc # "idle"
    /\ LET flightIds == bookingData.flightIds
       IN  IF Len(flightIds) > 0 /\ Cardinality(validFlights(flightIds)) # Len(flightIds)
           THEN creators' = [creators EXCEPT ![c].pc = "done",
                                             ![c].data = bookingData,
                                             ![c].result = MsgInvalidFlights]
           ELSE creators' = [creators EXCEPT ![c].pc = "querying",
                                             ![c].data = bookingData,
                                             ![c].today = DayOf(clock)]
    /\ UNCHANGED <<bookings, clock, callers, catalog, zone, finder, editor>>

\* the store answers the hook's findOne(...).sort({ref_id: -1})
CreateFindLast(c) ==
    /\ creators[c].pc = "querying"
    /\ creators' = [creators EXCEPT ![c].pc = "found",
                                    ![c].last = lastBooking(creators[c].today)]
    /\ UNCHANGED <<bookings, clock, callers, catalog, zone, finder, editor>>

\* new Booking({...}): createBooking gives the status 'BOOKED' and no
\* timeline; a fixture of the tests or of the seed script gives both
statusOf(data) == IF "status" \in DOMAIN data THEN data.status ELSE "BOOKED"

timelineOf(data) == IF "timeline" \in DOMAIN data THEN data.timeline ELSE <<>>

\* a hook that keeps the timeline that a new document brings
timelineHookKeepSupplied(doc, isNew, isModifiedStatus, now) ==
    IF isNew /\ Len(doc.timeline) > 0 THEN doc
    ELSE IF isNew
    THEN [doc EXCEPT !.timeline = <<[event |-> doc.status, timestamp |-> now]>>]
    ELSE IF isModifiedStatus
            /\ (Len(doc.timeline) = 0 \/ doc.timeline[Len(doc.timeline)].event # doc.status)
    THEN [doc EXCEPT !.timeline = Append(@, [event |-> doc.status, timestamp |-> now])]
    ELSE doc

\* a hook that pushes an entry whenever the status was modified
timelineHookAlwaysPush(doc, isNew, isModifiedStatus, now) ==
    IF isNew
    THEN [doc EXCEPT !.timeline = <<[event |-> doc.status, timestamp |-> now]>>]
    ELSE IF isModifiedStatus
    THEN [doc EXCEPT !.timeline = Append(@, [event |-> doc.status, timestamp |-> now])]
    ELSE doc

\* the pre('save') hook of the timeline: what it makes of the document
timelineHook(doc, isNew, isModifiedStatus, now) ==
    IF isNew
    THEN [doc EXCEPT !.timeline =
                <<[event |-> IF doc.status = "" THEN "BOOKED" ELSE doc.status,
                   timestamp |-> now]>>]
    ELSE IF isModifiedStatus
            /\ (Len(doc.timeline) = 0 \/ doc.timeline[Len(doc.timeline)].event # doc.status)
    THEN [doc EXCEPT !.timeline = Append(@, [event |-> doc.status, timestamp |-> now])]
    ELSE doc

\* a document that keeps the airport codes as they were submitted
NewDocAsSubmitted(c) ==
    timelineHook(
        [ref_id |-> RefId(creators[c].today, nextSequence(creators[c].last)),
         origin |-> creators[c].data.origin,
         destination |-> creators[c].data.destination,
         pieces |-> parseInt(toString(creators[c].data.pieces)),
         weight_kg |-> parseInt(toString(creators[c].data.weight_kg)),
         status |-> statusOf(creators[c].data),
         flightIds |-> creators[c].data.flightIds,
         timeline |-> timelineOf(creators[c].data)],
        TRUE, FALSE, clock)

\* new Booking({...}), the rest of the ref_id hook, then the timeline hook;
\* the insert is sent
NewDoc(c) ==
    timelineHook(
        [ref_id |-> RefId(creators[c].today, nextSequence(creators[c].last)),
         origin |-> trim(toUpperCase(creators[c].data.origin)),
         destination |-> trim(toUpperCase(creators[c].data.destination)),
         pieces |-> parseInt(toString(creators[c].data.pieces)),
         weight_kg |-> parseInt(toString(creators[c].data.weight_kg)),
         status |-> statusOf(creators[c].data),
         flightIds |-> creators[c].data.flightIds,
         timeline |-> timelineOf(creators[c].data)],
        TRUE, FALSE, clock)

CreatePrepare(c) ==
    /\ creators[c].pc = "found"
    /\ creators' = [creators EXCEPT ![c].pc = "inserting", ![c].doc = NewDoc(c)]
    /\ UNCHANGED <<bookings, clock, callers, catalog, zone, finder, editor>>

\* a ref_id without the unique index
noUniqueIndex(doc) == FALSE

\* the unique index on ref_id
duplicateKey(doc) == \E i \in DOMAIN bookings : bookings[i].ref_id = doc.ref_id

\* the store applies the insert
CreateInsert(c) ==
    /\ creators[c].pc = "inserting"
    /\ IF duplicateKey(creators[c].doc)
       THEN /\ creators' = [creators EXCEPT ![c].pc = "done", ![c].result = MsgDuplicateKey]
            /\ UNCHANGED bookings
       ELSE /\ bookings' = Append(bookings, creators[c].doc)
            /\ creators' = [creators EXCEPT ![c].pc = "done", ![c].result = "ok"]
    /\ UNCHANGED <<clock, callers, catalog, zone, finder, editor>>

----------------------------------------------------------------------------
(* Documents saved without createBooking: the fixtures of the tests and of
   the seed script, new Booking({...status, timeline}).save(), and a document
   of the collection that is loaded, edited and saved *)

\* the status and the timeline that a fixture brings, made at the instant now
FixtureHistories(now) ==
    {[status |-> "BOOKED",
      timeline |-> <<[event |-> "BOOKED", timestamp |-> now]>>],
     [status |-> "DEPARTED",
      timeline |-> <<[event |-> "BOOKED", timestamp |-> now - 2 * DayLen],
                     [event |-> "DEPARTED", timestamp |-> now]>>],
     [status |-> "ARRIVED",
      timeline |-> <<[event |-> "BOOKED", timestamp |-> now - 3 * DayLen],
                     [event |-> "DEPARTED", timestamp |-> now - 2 * DayLen],
                     [event |-> "ARRIVED", timestamp |-> now - DayLen]>>],
     [status |-> "CANCELLED",
      timeline |-> <<[event |-> "BOOKED", timestamp |-> now - 2 * DayLen],
                     [event |-> "CANCELLED", timestamp |-> now - DayLen]>>]}

Fixtures(now) ==
    {[origin |-> DEL, destination |-> BLR, pieces |-> 1, weight_kg |-> 0,
      flightIds |-> <<1>>, status |-> h.status, timeline |-> h.timeline] :
        h \in FixtureHistories(now)}

\* new Booking(fixture).save() up to the query of the ref_id hook
SaveNew(c, fixture) ==
    /\ creators[c].pc = "idle"
    /\ \A d \in 1..(c - 1) : creators[d].pc # "idle"
    /\ creators' = [creators EXCEPT ![c].pc = "querying",
                                    ![c].data = fixture,
                                    ![c].today = DayOf(clock)]
    /\ UNCHANGED <<bookings, clock, callers, catalog, zone, finder, editor>>

\* the longest timeline that an edited document may have
MaxTimeline == 3

\* the entries that the caller of save() may have pushed to the timeline
Pushes(now) ==
    {<<>>} \cup {<<[event |-> event, timestamp |-> now]>> : event \in Statuses}

\* the store answers the query that loads the document b
EditLoad(b) ==
    /\ editor.pc \in {"idle", "done"}
    /\ b \in DOMAIN bookings
    /\ editor' = [pc |-> "loaded", id |-> b, loaded |-> bookings[b],
                  edited |-> NoDoc, doc |-> bookings[b]]
    /\ UNCHANGED <<bookings, clock, creators, callers, catalog, zone, finder>>

\* doc.status = status, doc.timeline.push(...pushed), doc.save(): the hooks
\* run (the document is not new) and the update of the paths modified is
\* sent; nothing is sent when no path is modified
EditSave(status, pushed) ==
    /\ editor.pc = "loaded"
    /\ Len(editor.loaded.timeline) + Len(pushed) < MaxTimeline
    /\ LET edited == [editor.loaded EXCEPT !.status = status,
                                           !.timeline = @ \o pushed]
           doc == timelineHook(edited, FALSE, status # editor.loaded.status, clock)
       IN  editor' = [editor EXCEPT
                        !.pc = IF doc = editor.loaded THEN "done" ELSE "saving",
                        !.edited = edited,
                        !.doc = doc]
    /\ UNCHANGED <<bookings, clock, creators, callers, catalog, zone, finder>>

\* the store applies the update: $set of the status when it was modified,
\* $push of the entries added to the timeline
EditStore ==
    /\ editor.pc = "saving"
    /\ LET added == SubSeq(editor.doc.timeline, Len(editor.loaded.timeline) + 1,
                           Len(editor.doc.timeline))
       IN  bookings' = [bookings EXCEPT ![editor.id] =
                            [@ EXCEPT !.status = IF editor.doc.status # editor.loaded.status
                                                 THEN editor.doc.status
                                                 ELSE @,
                                      !.timeline = @ \o added]]
    /\ editor' = [editor EXCEPT !.pc = "done"]
    /\ UNCHANGED <<clock, creators, callers, catalog, zone, finder>>

----------------------------------------------------------------------------
(* router.post('/') of bookingRoutes.js: the validation of the body before
   createBooking.  A body is the record of its fields with the set of the
   fields that it lacks (undefined); a field that is lacking reads <<>> or 0
   here and is never read by the route otherwise. *)

BodyFields == {"origin", "destination", "pieces", "weight_kg"}

BodyPieces == {0 - 1, 0, 1, 2, 12}
BodyWeights == {0 - 1, 0, 1, 5}

Bodies ==
    {[origin |-> IF "origin" \in missing THEN <<>> ELSE <<"d", "e", "l">>,
      destination |-> IF "destination" \in missing THEN <<>> ELSE BLR,
      pieces |-> IF "pieces" \in missing THEN 0 ELSE pieces,
      weight_kg |-> IF "weight_kg" \in missing THEN 0 ELSE weight_kg,
      flightIds |-> <<>>,
      missing |-> missing] :
        missing \in SUBSET BodyFields, pieces \in BodyPieces, weight_kg \in BodyWeights}

\* !value: undefined, the empty string and the number 0 are falsy
falsy(body, field) ==
    \/ field \in body.missing
    \/ field \in {"origin", "destination"} /\ body[field] = <<>>
    \/ field \in {"pieces", "weight_kg"} /\ body[field] = 0

\* parseInt(n), parseFloat(n) of a number that is an integer: the number
\* that its decimal string reads
parseNumber(n) ==
    IF n < 0 THEN 0 - parseInt(toString(0 - n)) ELSE parseInt(toString(n))

\* the error of the 400 response, "" when the body passes (isNaN is false of
\* a number)
validationError(body) ==
    IF \E field \in BodyFields : falsy(body, field) THEN MsgMissingFields
    ELSE IF parseNumber(body.pieces) < 1 THEN MsgInvalidPieces
    ELSE IF parseNumber(body.weight_kg) < 0 THEN MsgInvalidWeight
    ELSE ""

\* POST /api/bookings up to the response 400 or, through createBooking, up
\* to the query of the ref_id hook
PostBooking(c, body) ==
    /\ creators[c].pc = "idle"
    /\ IF validationError(body) # ""
       THEN /\ creators' = [creators EXCEPT ![c].pc = "done",
                                             ![c].data = body,
                                             ![c].result = validationError(body)]
            /\ UNCHANGED <<bookings, clock, callers, catalog, zone, finder, editor>>
       ELSE CreateBegin(c, body)

----------------------------------------------------------------------------
(* departBooking, arriveBooking, cancelBooking *)

Kinds == {"depart", "arrive", "cancel"}

\* the four requests that name a booking
Operations == Kinds \cup {"history"}

\* An identifier is the text of an ObjectId (isValid, and the _id it is) or
\* another text
ObjectId(n) == [isValid |-> TRUE, oid |-> n, text |-> <<>>]

Text(prefix, date, sequence) ==
    [isValid |-> FALSE, oid |-> 0,
     text |-> [prefix |-> prefix, date |-> date,
               suffix |-> padStart(toString(sequence), RefIdPadWidth)]]

Identifiers ==
    {ObjectId(n) : n \in 1..NumCreators}
        \cup {Text(prefix, 0, 1) : prefix \in {BookPrefix, <<"b", "o", "o", "k">>}}

\* a lookup that compares only the sequence number of the ref_id
findBySequence(text) ==
    LET found == {i \in DOMAIN bookings : bookings[i].ref_id.suffix = text.suffix}
    IN  IF found = {} THEN 0 ELSE CHOOSE i \in found : \A j \in found : i <= j

\* Booking.findOne({ref_id: identifier.toUpperCase().trim()}): 0 for null
findByRefId(text) ==
    LET ref_id == [text EXCEPT !.prefix = trim(toUpperCase(@))]
        found == {i \in DOMAIN bookings : bookings[i].ref_id = ref_id}
    IN  IF found = {} THEN 0 ELSE CHOOSE i \in found : \A j \in found : i <= j

\* a lookup by _id alone
findByIdOnly(identifier) ==
    IF identifier.isValid /\ identifier.oid \in DOMAIN bookings
    THEN identifier.oid
    ELSE 0

\* findBookingByIdentifier: the _id of the document found, 0 for null (the
\* text of an ObjectId is the ref_id of no booking)
findBookingByIdentifier(identifier) ==
    IF identifier.isValid /\ identifier.oid \in DOMAIN bookings
    THEN identifier.oid
    ELSE IF identifier.isValid THEN 0
    ELSE findByRefId(identifier.text)

\* [...timeline].sort((a, b) => a.timestamp - b.timestamp): a stable sort
RECURSIVE sortedTimeline(_)
sortedTimeline(timeline) ==
    IF Len(timeline) <= 1 THEN timeline
    ELSE LET last == timeline[Len(timeline)]
             rest == sortedTimeline(SubSeq(timeline, 1, Len(timeline) - 1))
             k == Cardinality({i \in DOMAIN rest : rest[i].timestamp <= last.timestamp})
         IN  SubSeq(rest, 1, k) \o <<last>> \o SubSeq(rest, k + 1, Len(rest))

\* a history that returns the timeline as it is stored
historyAsStored(doc) == [doc EXCEPT !.flightIds = populate(@)]

\* what getBookingHistory returns for the document it read
history(doc) ==
    [doc EXCEPT !.flightIds = populate(@), !.timeline = sortedTimeline(@)]

\* a filter that accepts every status
validStatusesAll(kind) == Statuses

validStatuses(kind) ==
    CASE kind = "depart" -> validStatusesForDeparture
      [] kind = "arrive" -> validStatusesForArrival
      [] kind = "cancel" -> validStatusesForCancellation

\* an arrive that marks the booking DELIVERED
targetStatusDelivered(kind) ==
    CASE kind = "depart" -> "DEPARTED"
      [] kind = "arrive" -> "DELIVERED"
      [] kind = "cancel" -> "CANCELLED"

targetStatus(kind) ==
    CASE kind = "depart" -> "DEPARTED"
      [] kind = "arrive" -> "ARRIVED"
      [] kind = "cancel" -> "CANCELLED"

\* a depart whose check lets a departed booking through to the write
localCheckDepartRepeat(kind, status) ==
    CASE kind = "depart" ->
            IF status \notin validStatusesForDepartureRepeat THEN MsgCannotDepart ELSE ""
      [] kind = "arrive" ->
            IF status \notin validStatusesForArrival THEN MsgCannotArrive ELSE ""
      [] kind = "cancel" ->
            IF status = "ARRIVED" THEN MsgAlreadyArrived
            ELSE IF status \notin validStatusesForCancellation THEN MsgCannotCancel
            ELSE ""

\* a cancel that checks only for ARRIVED before it writes
localCheckArrivedOnly(kind, status) ==
    CASE kind = "depart" ->
            IF status \notin validStatusesForDeparture THEN MsgCannotDepart ELSE ""
      [] kind = "arrive" ->
            IF status \notin validStatusesForArrival THEN MsgCannotArrive ELSE ""
      [] kind = "cancel" ->
            IF status = "ARRIVED" THEN MsgAlreadyArrived ELSE ""

\* a cancel without the rule for a booking that has arrived
localCheckNoArrivedRule(kind, status) ==
    CASE kind = "depart" ->
            IF status \notin validStatusesForDeparture THEN MsgCannotDepart ELSE ""
      [] kind = "arrive" ->
            IF status \notin validStatusesForArrival THEN MsgCannotArrive ELSE ""
      [] kind = "cancel" ->
            IF status \notin validStatusesForCancellationArrived THEN MsgCannotCancel
            ELSE ""

\* requests that write without checking what they read
localCheckNone(kind, status) == ""

\* the checks of the status read, before any write: "" when they pass
localCheck(kind, status) ==
    CASE kind = "depart" ->
            IF status \notin validStatusesForDeparture THEN MsgCannotDepart ELSE ""
      [] kind = "arrive" ->
            IF status \notin validStatusesForArrival THEN MsgCannotArrive ELSE ""
      [] kind = "cancel" ->
            IF status = "ARRIVED" THEN MsgAlreadyArrived
            ELSE IF status \notin validStatusesForCancellation THEN MsgCannotCancel
            ELSE ""

failedMessage(kind) == IF kind = "cancel" THEN MsgCancelFailed ELSE MsgUpdateFailed

\* the requests in flight: called and not yet returned
InFlight == {q \in 1..NumCallers : callers[q].pc \notin {"idle", "done"}}

\* the controller is called and sends the query of findBookingByIdentifier;
\* overlaps records the requests in flight at that moment
Call(p, kind, identifier) ==
    /\ callers[p].pc = "idle"
    /\ \A q \in 1..(p - 1) : callers[q].pc # "idle"
    /\ callers' = [callers EXCEPT ![p].pc = "called", ![p].kind = kind,
                                  ![p].arg = identifier,
                                  ![p].overlaps = InFlight]
    /\ UNCHANGED <<bookings, clock, creators, catalog, zone, finder, editor>>

\* what the controller does with the answer of findBookingByIdentifier, the
\* _id of the document found or 0: the request as it stands afterwards
afterFind(caller, id) ==
    IF id = 0
    THEN [caller EXCEPT !.pc = "done", !.result = MsgNotFound]
    ELSE IF caller.kind = "history"
    THEN [caller EXCEPT !.pc = "done",
                        !.id = id,
                        !.seen = bookings[id].status,
                        !.result = "ok",
                        !.ret = history(bookings[id])]
    ELSE IF localCheck(caller.kind, bookings[id].status) # ""
    THEN [caller EXCEPT !.pc = "done",
                        !.id = id,
                        !.seen = bookings[id].status,
                        !.result = localCheck(caller.kind, bookings[id].status)]
    ELSE [caller EXCEPT !.pc = "checked",
                        !.id = id,
                        !.seen = bookings[id].status]

\* the store answers findBookingByIdentifier and the controller checks what
\* it read
Find(p) ==
    /\ callers[p].pc = "called"
    /\ callers' = [callers EXCEPT
                        ![p] = afterFind(@, findBookingByIdentifier(callers[p].arg))]
    /\ UNCHANGED <<bookings, clock, creators, catalog, zone, finder, editor>>

\* the controller builds the update (new Date()) and sends findOneAndUpdate
Issue(p) ==
    /\ callers[p].pc = "checked"
    /\ callers' = [callers EXCEPT ![p].pc = "issued", ![p].ts = clock]
    /\ UNCHANGED <<bookings, clock, creators, catalog, zone, finder, editor>>

\* a filter keyed on the one status the request read
filterObserved(kind, seen) == {seen}

\* status: {$in: ...} of the filter sent by a request that read status seen
filterStatuses(kind, seen) == validStatuses(kind)

\* a filter on _id alone
matchesIdOnly(id, valid) == TRUE

\* a filter on the status alone, which any booking may satisfy
matchesAnyBooking(id, valid) == \E b \in DOMAIN bookings : bookings[b].status \in valid

\* the filter {_id, status: {$in: valid}} of findOneAndUpdate
matches(id, valid) == bookings[id].status \in valid

\* an update that sets the timeline instead of pushing to it
updatedSet(doc, status, timestamp) ==
    [doc EXCEPT !.status = status,
                !.timeline = <<[event |-> status, timestamp |-> timestamp]>>]

\* an update that also empties the list of flights
updatedWithoutFlights(doc, status, timestamp) ==
    [doc EXCEPT !.status = status,
                !.timeline = Append(@, [event |-> status, timestamp |-> timestamp]),
                !.flightIds = <<>>]

\* an update that sets the status and pushes nothing
updatedStatusOnly(doc, status, timestamp) == [doc EXCEPT !.status = status]

\* {$set: {status}, $push: {timeline: {event, timestamp}}}
updated(doc, status, timestamp) ==
    [doc EXCEPT !.status = status,
                !.timeline = Append(@, [event |-> status, timestamp |-> timestamp])]

\* a request that reads the booking again when its write matched nothing
WriteWithRetry(p) ==
    /\ callers[p].pc = "issued"
    /\ LET id == callers[p].id
           kind == callers[p].kind
       IN  IF matches(id, filterStatuses(kind, callers[p].seen))
           THEN LET doc == updated(bookings[id], targetStatus(kind), callers[p].ts)
                IN  /\ bookings' = [bookings EXCEPT ![id] = doc]
                    /\ callers' = [callers EXCEPT ![p].pc = "done",
                                                  ![p].result = "ok",
                                                  ![p].ret = doc]
           ELSE /\ callers' = [callers EXCEPT ![p].pc = "called"]
                /\ UNCHANGED bookings
    /\ UNCHANGED <<clock, creators, catalog, zone, finder, editor>>

\* the store applies findOneAndUpdate atomically; {new: true} returns the
\* updated document, null when the filter matches nothing
Write(p) ==
    /\ callers[p].pc = "issued"
    /\ LET id == callers[p].id
           kind == callers[p].kind
       IN  IF matches(id, filterStatuses(kind, callers[p].seen))
           THEN LET doc == updated(bookings[id], targetStatus(kind), callers[p].ts)
                IN  /\ bookings' = [bookings EXCEPT ![id] = doc]
                    /\ callers' = [callers EXCEPT ![p].pc = "done",
                                                  ![p].result = "ok",
                                                  ![p].ret = doc]
           ELSE /\ callers' = [callers EXCEPT ![p].pc = "done",
                                              ![p].result = failedMessage(kind)]
                /\ UNCHANGED bookings
    /\ UNCHANGED <<clock, creators, catalog, zone, finder, editor>>

\* every request has returned (return updatedBooking, or the error thrown):
\* the results are delivered and the callers may call again
Settle ==
    /\ InFlight = {}
    /\ \E p \in 1..NumCallers : callers[p].pc = "done"
    /\ callers' = [p \in 1..NumCallers |-> IdleCaller]
    /\ UNCHANGED <<bookings, clock, creators, catalog, zone, finder, editor>>

----------------------------------------------------------------------------
(* getRoutes (routeController.js); the Date of the server counts in local
   time, zone ticks ahead of UTC *)

Zones == (1 - TicksPerDay)..(TicksPerDay - 1)

\* new Date('YYYY-MM-DD'): 00:00 UTC of the date
NewDate(departureDate) == departureDate * MsPerDay

\* date.getDate(): the local calendar day of an instant
getDate(date) == (date + zone * MsPerTick) \div MsPerDay

\* date.setDate(day): the same local time on another day
setDate(date, day) == date + (day - getDate(date)) * MsPerDay

\* date.setHours(0, 0, 0, 0): the first instant of the local day
setHoursFirst(date) == getDate(date) * MsPerDay - zone * MsPerTick

\* date.setHours(23, 59, 59, 999): the last instant of the local day
setHoursLast(date) ==
    getDate(date) * MsPerDay + (MsPerDay - 1) - zone * MsPerTick

startDate(departureDate) == setHoursFirst(NewDate(departureDate))

endDate(departureDate) == setHoursLast(NewDate(departureDate))

secondLegEndDate(firstLegArrival) ==
    setHoursLast(setDate(firstLegArrival, getDate(firstLegArrival) + 1))

\* .sort({departureDateTime: 1}); flights of one departure in the order of
\* the collection
Before(f, g) ==
    \/ f.departureDateTime < g.departureDateTime
    \/ f.departureDateTime = g.departureDateTime /\ f._id <= g._id

RECURSIVE sortByDeparture(_)
sortByDeparture(flights) ==
    IF flights = {} THEN <<>>
    ELSE LET f == CHOOSE f \in flights : \A g \in flights : Before(f, g)
         IN  <<f>> \o sortByDeparture(flights \ {f})

\* a rounding that counts a half of a minute downwards
calculateDurationHalfDown(start, end) ==
    (2 * (end - start) + MsPerMinute - 1) \div (2 * MsPerMinute)

\* Math.floor in the place of Math.round
calculateDurationFloor(start, end) == (end - start) \div MsPerMinute

\* Math.round((end - start) / (1000 * 60)): the nearest whole number of
\* minutes, a half rounded up
calculateDuration(start, end) ==
    (2 * (end - start) + MsPerMinute) \div (2 * MsPerMinute)

formatFlight(flight) ==
    [id |-> flight._id, origin |-> flight.origin, destination |-> flight.destination,
     departureDateTime |-> flight.departureDateTime,
     arrivalDateTime |-> flight.arrivalDateTime]

getDirectFlights(origin, destination, start, end) ==
    LET flights == sortByDeparture({f \in catalog :
                        /\ f.origin = origin
                        /\ f.destination = destination
                        /\ f.departureDateTime >= start
                        /\ f.departureDateTime <= end})
    IN  [i \in DOMAIN flights |->
            [type |-> "direct",
             flight |-> formatFlight(flights[i]),
             totalDuration |-> calculateDuration(flights[i].departureDateTime,
                                                 flights[i].arrivalDateTime)]]

\* Step 1 of getTransitRoutes without the filter on the destination
firstLegFlightsAnyDestination(origin, destination, start, end) ==
    sortByDeparture({f \in catalog :
        /\ f.origin = origin
        /\ f.departureDateTime >= start
        /\ f.departureDateTime <= end})

\* Step 1 of getTransitRoutes
firstLegFlights(origin, destination, start, end) ==
    sortByDeparture({f \in catalog :
        /\ f.origin = origin
        /\ f.destination # destination
        /\ f.departureDateTime >= start
        /\ f.departureDateTime <= end})

\* Step 2 of getTransitRoutes, for one first leg
secondLegFlights(firstLeg, destination) ==
    sortByDeparture({f \in catalog :
        /\ f.origin = firstLeg.destination
        /\ f.destination = destination
        /\ f.departureDateTime >= firstLeg.arrivalDateTime
        /\ f.departureDateTime <= secondLegEndDate(firstLeg.arrivalDateTime)})

\* the routes pushed for one first leg
transitRoutesOf(firstLeg, destination) ==
    LET seconds == secondLegFlights(firstLeg, destination)
    IN  [j \in DOMAIN seconds |->
            [type |-> "transit",
             firstLeg |-> formatFlight(firstLeg),
             secondLeg |-> formatFlight(seconds[j]),
             transitCity |-> firstLeg.destination,
             layoverDuration |-> calculateDuration(firstLeg.arrivalDateTime,
                                                   seconds[j].departureDateTime),
             totalDuration |-> calculateDuration(firstLeg.departureDateTime,
                                                 seconds[j].arrivalDateTime)]]

\* for (const firstLeg of firstLegFlights) ...
RECURSIVE transitRoutes(_, _)
transitRoutes(firsts, destination) ==
    IF Len(firsts) = 0 THEN <<>>
    ELSE transitRoutesOf(Head(firsts), destination)
            \o transitRoutes(Tail(firsts), destination)

\* a sort by totalDuration that places a route before the routes of equal
\* totalDuration that were pushed before it
RECURSIVE sortByTotalDurationUnstable(_)
sortByTotalDurationUnstable(routes) ==
    IF Len(routes) <= 1 THEN routes
    ELSE LET last == routes[Len(routes)]
             rest == sortByTotalDurationUnstable(SubSeq(routes, 1, Len(routes) - 1))
             k == Cardinality({i \in DOMAIN rest :
                                    rest[i].totalDuration < last.totalDuration})
         IN  SubSeq(rest, 1, k) \o <<last>> \o SubSeq(rest, k + 1, Len(rest))

\* transitRoutes.sort((a, b) => a.totalDuration - b.totalDuration); the sort
\* of an array is stable
RECURSIVE sortByTotalDuration(_)
sortByTotalDuration(routes) ==
    IF Len(routes) <= 1 THEN routes
    ELSE LET last == routes[Len(routes)]
             rest == sortByTotalDuration(SubSeq(routes, 1, Len(routes) - 1))
             k == Cardinality({i \in DOMAIN rest :
                                    rest[i].totalDuration <= last.totalDuration})
         IN  SubSeq(rest, 1, k) \o <<last>> \o SubSeq(rest, k + 1, Len(rest))

getTransitRoutes(origin, destination, start, end) ==
    sortByTotalDuration(
        transitRoutes(firstLegFlights(origin, destination, start, end), destination))

getRoutes(origin, destination, departureDate) ==
    LET normalizedOrigin == trim(toUpperCase(origin))
        normalizedDestination == trim(toUpperCase(destination))
    IN  [direct |-> getDirectFlights(normalizedOrigin, normalizedDestination,
                                     startDate(departureDate), endDate(departureDate)),
         transit |-> getTransitRoutes(normalizedOrigin, normalizedDestination,
                                      startDate(departureDate), endDate(departureDate))]

\* the request GET /api/routes
GetRoutes(origin, destination, departureDate) ==
    /\ finder.pc = "idle"
    /\ finder' = [pc |-> "done", origin |-> origin, destination |-> destination,
                  departureDate |-> departureDate,
                  result |-> getRoutes(origin, destination, departureDate)]
    /\ UNCHANGED <<bookings, clock, creators, callers, catalog, zone, editor>>

\* The route finder over every collection of at most MaxCatalog flights and
\* every zone of the server
RECURSIVE SetsUpTo(_, _)
SetsUpTo(S, n) ==
    IF n = 0 THEN {{}}
    ELSE LET smaller == SetsUpTo(S, n - 1)
         IN  smaller \cup {s \cup {x} : s \in smaller, x \in S}

RouteQueries ==
    {[origin |-> <<"d", "e", "l">>, destination |-> BLR],
     [origin |-> <<"H", "Y", "D", " ">>, destination |-> <<"b", "l", "r">>]}

QueryDates == {1}

RouteInit ==
    /\ bookings = <<>>
    /\ clock = 0
    /\ creators = [c \in 1..NumCreators |-> IdleCreator]
    /\ callers = [p \in 1..NumCallers |-> IdleCaller]
    /\ catalog \in SetsUpTo(AllFlights, MaxCatalog)
    /\ zone \in Zones
    /\ finder = IdleFinder
    /\ editor = IdleEditor

NextRoute ==
    \E query \in RouteQueries, departureDate \in QueryDates :
        GetRoutes(query.origin, query.destination, departureDate)

RouteSpec == RouteInit /\ [][NextRoute]_vars

(* The route finder over collections that may also hold flights that land
   where they took off: the one-tick flights of the legs and such flights at
   DEL and at BLR on days 0 and 1 *)
LoopLegs ==
    <<[origin |-> DEL, destination |-> DEL],
      [origin |-> BLR, destination |-> BLR]>>

LoopFlights ==
    {[_id |-> (2 * Len(Legs) + k - 1) * (Horizon + 1) + t + 1,
      origin |-> LoopLegs[k].origin, destination |-> LoopLegs[k].destination,
      departureDateTime |-> t * MsPerTick,
      arrivalDateTime |-> (t + 1) * MsPerTick] :
        k \in DOMAIN LoopLegs, t \in 0..(2 * TicksPerDay - 1)}

OneTickFlights ==
    {f \in AllFlights : f.arrivalDateTime = f.departureDateTime + MsPerTick}

LoopInit ==
    /\ bookings = <<>>
    /\ clock = 0
    /\ creators = [c \in 1..NumCreators |-> IdleCreator]
    /\ callers = [p \in 1..NumCallers |-> IdleCaller]
    /\ catalog \in SetsUpTo(OneTickFlights \cup LoopFlights, MaxCatalog)
    /\ zone \in Zones
    /\ finder = IdleFinder
    /\ editor = IdleEditor

LoopSpec == LoopInit /\ [][NextRoute]_vars

(* The route finder over collections of one flight DEL->HYD and one flight
   HYD->BLR whose instants lie within two minutes after 00:00 UTC of day 1, at
   the millisecond, and over the collection of the flights 08:00-10:30 and
   14:00-15:30 of day 1 *)
FineOffsets ==
    <<0, 1, MsPerMinute \div 2 - 1, MsPerMinute \div 2, MsPerMinute \div 2 + 1,
      MsPerMinute, MsPerMinute + MsPerMinute \div 2>>

FineFlights(k) ==
    {[_id |-> 1000 * k + 10 * p[1] + p[2],
      origin |-> Legs[k].origin, destination |-> Legs[k].destination,
      departureDateTime |-> MsPerDay + FineOffsets[p[1]],
      arrivalDateTime |-> MsPerDay + FineOffsets[p[2]]] :
        p \in {q \in (DOMAIN FineOffsets) \X (DOMAIN FineOffsets) : q[1] < q[2]}}

ExampleFlights ==
    {[_id |-> 1, origin |-> DEL, destination |-> HYD,
      departureDateTime |-> MsPerDay + 480 * MsPerMinute,
      arrivalDateTime |-> MsPerDay + 630 * MsPerMinute],
     [_id |-> 2, origin |-> HYD, destination |-> BLR,
      departureDateTime |-> MsPerDay + 840 * MsPerMinute,
      arrivalDateTime |-> MsPerDay + 930 * MsPerMinute]}

FineCatalogs ==
    {{f1, f2} : f1 \in FineFlights(1), f2 \in FineFlights(2)} \cup {ExampleFlights}

FineInit ==
    /\ bookings = <<>>
    /\ clock = 0
    /\ creators = [c \in 1..NumCreators |-> IdleCreator]
    /\ callers = [p \in 1..NumCallers |-> IdleCaller]
    /\ catalog \in FineCatalogs
    /\ zone \in Zones
    /\ finder = IdleFinder
    /\ editor = IdleEditor

FineSpec == FineInit /\ [][NextRoute]_vars

----------------------------------------------------------------------------

Next ==
    \/ Tick
    \/ \E c \in 1..NumCreators, bookingData \in AllBookingData :
            CreateBegin(c, bookingData)
    \/ \E c \in 1..NumCreators, body \in Bodies : PostBooking(c, body)
    \/ \E c \in 1..NumCreators : CreateFindLast(c)
    \/ \E c \in 1..NumCreators : CreatePrepare(c)
    \/ \E c \in 1..NumCreators : CreateInsert(c)
    \/ \E p \in 1..NumCallers, kind \in Operations, identifier \in Identifiers :
            Call(p, kind, identifier)
    \/ \E p \in 1..NumCallers : Find(p)
    \/ \E p \in 1..NumCallers : Issue(p)
    \/ \E p \in 1..NumCallers : Write(p)
    \/ Settle
    \/ \E query \in RouteQueries, departureDate \in QueryDates :
            GetRoutes(query.origin, query.destination, departureDate)
    \/ \E c \in 1..NumCreators, fixture \in Fixtures(clock) : SaveNew(c, fixture)
    \/ \E b \in 1..NumCreators : EditLoad(b)
    \/ \E status \in Statuses, pushed \in Pushes(clock) : EditSave(status, pushed)
    \/ EditStore

Spec == Init /\ [][Next]_vars

\* The system when createBooking is requested once: every request of the
\* lifecycle then names the one booking, _id 1, or an _id of no booking
LifecycleIdentifiers == {ObjectId(1), ObjectId(2)}

NextLifecycle ==
    \/ Tick
    \/ \E bookingData \in PlainBookingData : CreateBegin(1, bookingData)
    \/ CreateFindLast(1)
    \/ CreatePrepare(1)
    \/ CreateInsert(1)
    \/ \E p \in 1..NumCallers, kind \in Kinds, identifier \in LifecycleIdentifiers :
            Call(p, kind, identifier)
    \/ \E p \in 1..NumCallers : Find(p)
    \/ \E p \in 1..NumCallers : Issue(p)
    \/ \E p \in 1..NumCallers : Write(p)
    \/ Settle

LifecycleSpec == Init /\ [][NextLifecycle]_vars

\* The system when createBooking is requested once, with any cargo, and the
\* booking is then named by _id or by ref_id, one request at a time
RecordIdentifiers ==
    {ObjectId(1), ObjectId(2), Text(BookPrefix, 0, 1), Text(<<"b", "o", "o", "k">>, 0, 1)}

NextRecord ==
    \/ Tick
    \/ \E bookingData \in AllBookingData : CreateBegin(1, bookingData)
    \/ CreateFindLast(1)
    \/ CreatePrepare(1)
    \/ CreateInsert(1)
    \/ \E kind \in Operations, identifier \in RecordIdentifiers : Call(1, kind, identifier)
    \/ Find(1)
    \/ Issue(1)
    \/ Write(1)
    \/ Settle

RecordSpec == Init /\ [][NextRecord]_vars

\* The system when createBooking is requested once and two callers request
\* the four other operations on the _id of its booking, at once or in turn,
\* while the clock advances
HistoryCallers == {1, 2}

NextHistory ==
    \/ Tick
    \/ \E bookingData \in PlainBookingData : CreateBegin(1, bookingData)
    \/ CreateFindLast(1)
    \/ CreatePrepare(1)
    \/ CreateInsert(1)
    \/ \E p \in HistoryCallers, kind \in Operations : Call(p, kind, ObjectId(1))
    \/ \E p \in HistoryCallers : Find(p)
    \/ \E p \in HistoryCallers : Issue(p)
    \/ \E p \in HistoryCallers : Write(p)
    \/ Settle

HistorySpec == Init /\ [][NextHistory]_vars

\* The system when createBooking is requested once and the four other
\* operations are requested on the _id of its booking, before and after it is
\* stored, all within one reading of the clock
ServiceIdentifiers == {ObjectId(1)}

NextService ==
    \/ \E bookingData \in PlainBookingData : CreateBegin(1, bookingData)
    \/ CreateFindLast(1)
    \/ CreatePrepare(1)
    \/ CreateInsert(1)
    \/ \E p \in 1..NumCallers, kind \in Operations, identifier \in ServiceIdentifiers :
            Call(p, kind, identifier)
    \/ \E p \in 1..NumCallers : Find(p)
    \/ \E p \in 1..NumCallers : Issue(p)
    \/ \E p \in 1..NumCallers : Write(p)
    \/ Settle

\* the store answers every query and the event loop runs every continuation
Fairness ==
    /\ WF_vars(CreateFindLast(1))
    /\ WF_vars(CreatePrepare(1))
    /\ WF_vars(CreateInsert(1))
    /\ \A p \in 1..NumCallers :
            WF_vars(Find(p)) /\ WF_vars(Issue(p)) /\ WF_vars(Write(p))

FairServiceSpec == Init /\ [][NextService]_vars /\ Fairness

\* The system when createBooking is requested twice, without flights, and the
\* requests of the lifecycle name the two bookings by _id, all within one
\* reading of the clock
BareBookingData == {BookingData(PlainCargo, <<>>)}

PairIdentifiers == {ObjectId(1), ObjectId(2)}

NextPair ==
    \/ \E c \in 1..2, bookingData \in BareBookingData : CreateBegin(c, bookingData)
    \/ \E c \in 1..2 : CreateFindLast(c)
    \/ \E c \in 1..2 : CreatePrepare(c)
    \/ \E c \in 1..2 : CreateInsert(c)
    \/ \E p \in 1..NumCallers, kind \in Kinds, identifier \in PairIdentifiers :
            Call(p, kind, identifier)
    \/ \E p \in 1..NumCallers : Find(p)
    \/ \E p \in 1..NumCallers : Issue(p)
    \/ \E p \in 1..NumCallers : Write(p)
    \/ Settle

PairSpec == Init /\ [][NextPair]_vars

\* The system when only createBooking is requested
NextCreate ==
    \/ Tick
    \/ \E c \in 1..NumCreators, bookingData \in PlainBookingData :
            CreateBegin(c, bookingData)
    \/ \E c \in 1..NumCreators : CreateFindLast(c)
    \/ \E c \in 1..NumCreators : CreatePrepare(c)
    \/ \E c \in 1..NumCreators : CreateInsert(c)

CreateSpec == Init /\ [][NextCreate]_vars

(* The system when createBooking is requested, one request at a time, on and
   after a day 0 on which many bookings were made before: the collection
   holds the last bookings of day 0, those of earlier sequence numbers, all of
   at most RefIdPadWidth digits, are left out *)
LastPadded == 10^RefIdPadWidth - 1

BusyDay(n) ==
    [i \in 1..n |->
        [ref_id |-> RefId(0, LastPadded - 2 + i),
         origin |-> DEL, destination |-> BLR, pieces |-> 1, weight_kg |-> 0,
         status |-> "BOOKED", flightIds |-> <<>>,
         timeline |-> <<[event |-> "BOOKED", timestamp |-> 0]>>]]

SequenceInit ==
    /\ bookings \in {BusyDay(n) : n \in 0..2}
    /\ clock = 0
    /\ creators = [c \in 1..NumCreators |-> IdleCreator]
    /\ callers = [p \in 1..NumCallers |-> IdleCaller]
    /\ catalog = SeedCatalog
    /\ zone = 0
    /\ finder = IdleFinder
    /\ editor = IdleEditor

NextSequence ==
    \/ Tick
    \/ \E c \in 1..NumCreators, bookingData \in BareBookingData :
            /\ \A d \in 1..NumCreators : creators[d].pc \in {"idle", "done"}
            /\ CreateBegin(c, bookingData)
    \/ \E c \in 1..NumCreators : CreateFindLast(c)
    \/ \E c \in 1..NumCreators : CreatePrepare(c)
    \/ \E c \in 1..NumCreators : CreateInsert(c)

SequenceSpec == SequenceInit /\ [][NextSequence]_vars

\* The system when one booking is posted to the create endpoint
NextPost ==
    \/ \E body \in Bodies : PostBooking(1, body)
    \/ CreateFindLast(1)
    \/ CreatePrepare(1)
    \/ CreateInsert(1)

PostSpec == Init /\ [][NextPost]_vars

\* The system when one document is saved for the first time, a fixture or
\* the booking of createBooking, and is then loaded, edited and saved, again
\* and again
NextSave ==
    \/ \E fixture \in Fixtures(clock) : SaveNew(1, fixture)
    \/ \E bookingData \in BareBookingData : CreateBegin(1, bookingData)
    \/ CreateFindLast(1)
    \/ CreatePrepare(1)
    \/ CreateInsert(1)
    \/ EditLoad(1)
    \/ \E status \in Statuses, pushed \in Pushes(clock) : EditSave(status, pushed)
    \/ EditStore

SaveSpec == Init /\ [][NextSave]_vars

----------------------------------------------------------------------------
(* Vocabulary of the properties *)

Callers == 1..NumCallers

Started(p) == callers[p].pc # "idle"
Done(p) == callers[p].pc = "done"
Succeeded(p) == Done(p) /\ callers[p].result = "ok"
Failed(p) == Done(p) /\ callers[p].result # "ok"
Kind(p) == ErrorKind(callers[p].result)

\* p is a request of the given kind that found booking b
On(p, kind, b) == Started(p) /\ callers[p].kind = kind /\ callers[p].id = b

\* p and q were in flight at the same time
Concurrent(p, q) == p \in callers[q].overlaps \/ q \in callers[p].overlaps

\* no request outside S has found booking b since the last Settle
OnlyOn(S, b) == \A r \in Callers \ S : ~Started(r) \/ callers[r].id # b

Count(timeline, event) ==
    Cardinality({i \in DOMAIN timeline : timeline[i].event = event})

Events(timeline) == [i \in DOMAIN timeline |-> timeline[i].event]

\* a request that has started and not finished can take its next step
CanStep(p) ==
    /\ callers[p].pc = "called" => ENABLED Find(p)
    /\ callers[p].pc = "checked" => ENABLED Issue(p)
    /\ callers[p].pc = "issued" => ENABLED Write(p)

\* the step of p in which the store applies its conditional write
WriteStep(p) == callers[p].pc = "issued" /\ callers'[p].pc = "done"

Edges ==
    {<<"BOOKED", "DEPARTED">>, <<"BOOKED", "ARRIVED">>, <<"DEPARTED", "ARRIVED">>,
     <<"BOOKED", "CANCELLED">>, <<"DEPARTED", "CANCELLED">>}

----------------------------------------------------------------------------
\* b was BOOKED when the requests of S, the only ones on it since the last
\* Settle, began: the first of them to read it read BOOKED
BeganBooked(S, b) == OnlyOn(S, b) /\ \E r \in S : callers[r].seen = "BOOKED"

(* C1: a cancel that has been called and has not returned can always take its
   next step; when two cancels are the only requests on a booking that was
   BOOKED, they never both succeed, and once both have returned exactly one
   has succeeded, the other has an error, the stored status is CANCELLED and
   the timeline holds exactly one CANCELLED entry. *)
C1_TwoCancels ==
    /\ \A p \in Callers : callers[p].kind = "cancel" => CanStep(p)
    /\ \A b \in DOMAIN bookings : \A p, q \in Callers :
        (p # q /\ On(p, "cancel", b) /\ On(q, "cancel", b) /\ BeganBooked({p, q}, b)) =>
            /\ ~(Succeeded(p) /\ Succeeded(q))
            /\ (Done(p) /\ Done(q)) =>
                /\ Succeeded(p) \/ Succeeded(q)
                /\ Failed(p) \/ Failed(q)
                /\ bookings[b].status = "CANCELLED"
                /\ Count(bookings[b].timeline, "CANCELLED") = 1
                /\ \A r \in {p, q} : Succeeded(r) => callers[r].ret.status = "CANCELLED"

\* two overlapping cancels both read BOOKED, both wrote, one won
C1_Witness ==
    \E b \in DOMAIN bookings : \E p, q \in Callers :
        /\ p # q /\ On(p, "cancel", b) /\ On(q, "cancel", b) /\ OnlyOn({p, q}, b)
        /\ Concurrent(p, q)
        /\ callers[p].seen = "BOOKED" /\ callers[q].seen = "BOOKED"
        /\ Succeeded(p) /\ Failed(q)
        /\ bookings[b].status = "CANCELLED"

\* p won and q lost among two overlapping cancels, the only requests on b,
\* which was BOOKED
CancelRace(b, p, q) ==
    /\ p # q /\ On(p, "cancel", b) /\ On(q, "cancel", b) /\ BeganBooked({p, q}, b)
    /\ Concurrent(p, q)
    /\ Succeeded(p) /\ Failed(q)

(* C2 as stated: of two concurrent cancels that are the only requests on a
   booking that was BOOKED, the one that does not succeed fails with
   ConcurrencyConflict. *)
C2_LoserAlwaysConflict ==
    \A b \in DOMAIN bookings : \A p, q \in Callers :
        CancelRace(b, p, q) => Kind(q) = "ConcurrencyConflict"

(* C2 amended: of two concurrent cancels that are the only requests on a
   booking that was BOOKED, the one that does not succeed fails with
   ConcurrencyConflict when the store answered its read before the winner's
   write was applied (it read BOOKED), and with InvalidTransition when the
   store answered its read after it (it read CANCELLED); it fails in no other
   way. *)
C2_LoserKind ==
    \A b \in DOMAIN bookings : \A p, q \in Callers :
        CancelRace(b, p, q) =>
            \/ callers[q].seen = "BOOKED" /\ Kind(q) = "ConcurrencyConflict"
            \/ callers[q].seen = "CANCELLED" /\ Kind(q) = "InvalidTransition"

\* the loser was in flight with the winner and read the booking after the
\* winner's write
C2_Witness ==
    \E b \in DOMAIN bookings : \E p, q \in Callers :
        /\ CancelRace(b, p, q)
        /\ callers[q].seen = "CANCELLED" /\ Kind(q) = "InvalidTransition"

(* C3 as stated: whenever the stored status differs, when the conditional
   write of a depart, arrive or cancel is applied, from the status that request
   read, the write changes nothing and the request fails with
   ConcurrencyConflict. *)
C3_ChangedMeansConflict ==
    [][\A p \in Callers :
        (WriteStep(p) /\ bookings[callers[p].id].status # callers[p].seen) =>
            /\ bookings' = bookings
            /\ ErrorKind(callers'[p].result) = "ConcurrencyConflict"]_vars

\* the source statuses the specification allows each operation
Allowed(kind) == IF kind = "depart" THEN {"BOOKED"} ELSE {"BOOKED", "DEPARTED"}

(* C3 amended: when the conditional write of a depart, arrive or cancel is
   applied and the stored status is outside the operation's allowed source
   statuses ({BOOKED} for depart, {BOOKED, DEPARTED} for arrive and cancel),
   the write changes nothing and the request fails with ConcurrencyConflict;
   when the stored status is inside them the write is applied and the request
   succeeds, also when another request changed the status after the read (an
   arrive or cancel that read BOOKED while a depart moved the booking to
   DEPARTED). *)
C3_GuardOnAllowedSet ==
    [][\A p \in Callers :
        WriteStep(p) =>
            LET id == callers[p].id
                kind == callers[p].kind
            IN  IF bookings[id].status \in Allowed(kind)
                THEN /\ callers'[p].result = "ok"
                     /\ bookings'[id].status = targetStatus(kind)
                ELSE /\ bookings' = bookings
                     /\ ErrorKind(callers'[p].result) = "ConcurrencyConflict"]_vars

\* an arrive that read BOOKED succeeded on a booking that a depart, in
\* flight with it, had moved to DEPARTED
C3_Witness ==
    \E p, q \in Callers :
        /\ Succeeded(p) /\ callers[p].kind = "arrive" /\ callers[p].seen = "BOOKED"
        /\ Events(callers[p].ret.timeline) = <<"BOOKED", "DEPARTED", "ARRIVED">>
        /\ Succeeded(q) /\ callers[q].kind = "depart" /\ callers[q].id = callers[p].id
        /\ Concurrent(p, q)

(* C4: every change of a stored status is one of the five edges, and every
   pair of consecutive events of a stored timeline is one of them. *)
C4_OnlyEdges ==
    [][\A b \in DOMAIN bookings :
        /\ bookings'[b].status # bookings[b].status =>
                <<bookings[b].status, bookings'[b].status>> \in Edges
        /\ \A i \in 1..(Len(bookings'[b].timeline) - 1) :
                <<bookings'[b].timeline[i].event, bookings'[b].timeline[i + 1].event>>
                    \in Edges]_vars

\* the requests, all in flight together on one booking, have all returned
\* and two of them moved the booking
C4_Witness ==
    \E b \in DOMAIN bookings :
        /\ Len(bookings[b].timeline) = 3
        /\ \A p \in Callers : Done(p) /\ callers[p].id = b
        /\ \A p, q \in Callers : p # q => Concurrent(p, q)

(* C5: a booking that has arrived never becomes CANCELLED; the conditional
   write of a cancel applied to a booking stored as ARRIVED changes nothing
   and the cancel fails. *)
C5_ArrivedNeverCancelled ==
    [][\A b \in DOMAIN bookings :
        Count(bookings[b].timeline, "ARRIVED") > 0 \/ bookings[b].status = "ARRIVED" =>
            /\ bookings'[b].status # "CANCELLED"
            /\ \A p \in Callers :
                (WriteStep(p) /\ callers[p].kind = "cancel" /\ callers[p].id = b) =>
                    /\ bookings' = bookings
                    /\ callers'[p].result # "ok"]_vars

\* a cancel read the booking before an arrive wrote ARRIVED, and lost
C5_Witness ==
    \E p \in Callers :
        /\ callers[p].kind = "cancel" /\ callers[p].seen \in {"BOOKED", "DEPARTED"}
        /\ Failed(p) /\ Kind(p) = "ConcurrencyConflict"
        /\ bookings[callers[p].id].status = "ARRIVED"

(* C6: in every reachable state the timestamps of every stored timeline are
   non-decreasing in stored order and the first entry's event is the booking's
   initial status, BOOKED. *)
C6_TimelineOrdered ==
    \A b \in DOMAIN bookings :
        LET timeline == bookings[b].timeline
        IN  /\ timeline[1].event = "BOOKED"
            /\ \A i \in 1..(Len(timeline) - 1) :
                    timeline[i].timestamp <= timeline[i + 1].timestamp

(* C7: no stored timeline ever holds both an ARRIVED and a CANCELLED event;
   when a cancel and an arrive are the only cancel and arrive requests on a
   booking that was BOOKED or DEPARTED and both have returned, exactly one of
   them has succeeded and the stored status is the winner's target. *)
C7_CancelArriveExclusive ==
    \A b \in DOMAIN bookings :
        /\ ~(Count(bookings[b].timeline, "ARRIVED") > 0
                /\ Count(bookings[b].timeline, "CANCELLED") > 0)
        /\ \A p, q \in Callers :
            (/\ On(p, "cancel", b) /\ On(q, "arrive", b)
             /\ \A r \in Callers \ {p, q} :
                    ~(Started(r) /\ callers[r].arg = ObjectId(b) /\ callers[r].kind \in {"cancel", "arrive"})
             /\ \E r \in {p, q} : callers[r].seen \in {"BOOKED", "DEPARTED"}
             /\ Done(p) /\ Done(q)) =>
                /\ Succeeded(p) # Succeeded(q)
                /\ Succeeded(p) => bookings[b].status = "CANCELLED"
                /\ Succeeded(q) => bookings[b].status = "ARRIVED"

\* on a booking a depart had moved to DEPARTED, a cancel and an arrive in
\* flight together both read DEPARTED and the arrive won
C7_Witness ==
    \E b \in DOMAIN bookings : \E p, q \in Callers :
        /\ On(p, "cancel", b) /\ On(q, "arrive", b) /\ Concurrent(p, q)
        /\ callers[p].seen = "DEPARTED" /\ callers[q].seen = "DEPARTED"
        /\ Failed(p) /\ Succeeded(q)
        /\ bookings[b].status = "ARRIVED"

\* among the requests that have returned since the last Settle at most one of
\* each kind has succeeded on b, and the timeline of b holds at most one
\* entry of each kind's target event; two departs that were the only requests
\* on b, which was BOOKED, have one success, one failure, one DEPARTED entry
OneSuccessPerKind ==
    \A b \in DOMAIN bookings :
        /\ \A kind \in Kinds :
            /\ Cardinality({p \in Callers : On(p, kind, b) /\ Succeeded(p)}) <= 1
            /\ Count(bookings[b].timeline, targetStatus(kind)) <= 1
        /\ \A p, q \in Callers :
            (p # q /\ On(p, "depart", b) /\ On(q, "depart", b) /\ BeganBooked({p, q}, b)
                /\ Done(p) /\ Done(q)) =>
                    /\ Succeeded(p) # Succeeded(q)
                    /\ Failed(p) \/ Failed(q)
                    /\ Count(bookings[b].timeline, "DEPARTED") = 1

(* C8: a request of a kind succeeds on a booking only when no request of
   that kind has succeeded on it before (its timeline holds no entry of the
   kind's target event, and the success adds the one entry), so at most one
   request of each kind ever succeeds on a booking; of two departs that are
   the only requests on a BOOKED booking exactly one succeeds, the other fails
   and the timeline holds exactly one DEPARTED entry. *)
C8_OneSuccessPerKind ==
    [][/\ OneSuccessPerKind'
       /\ \A p \in Callers :
            (WriteStep(p) /\ callers'[p].result = "ok") =>
                LET b == callers[p].id
                    event == targetStatus(callers[p].kind)
                IN  /\ Count(bookings[b].timeline, event) = 0
                    /\ Count(bookings'[b].timeline, event) = 1]_vars

\* two departs in flight together both read BOOKED; one won, one lost its
\* conditional write
C8_Witness ==
    \E b \in DOMAIN bookings : \E p, q \in Callers :
        /\ p # q /\ On(p, "depart", b) /\ On(q, "depart", b) /\ OnlyOn({p, q}, b)
        /\ Concurrent(p, q)
        /\ callers[p].seen = "BOOKED" /\ callers[q].seen = "BOOKED"
        /\ Succeeded(p) /\ Kind(q) = "ConcurrencyConflict"

(* C9: a stored timeline is never empty; whenever a stored booking changes,
   its status changes and its timeline is the old timeline with exactly one
   entry appended, whose event is the new status; a successful depart, arrive
   or cancel makes exactly that change and returns the stored document. *)
C9_AppendOnly ==
    [][/\ \A b \in DOMAIN bookings' : Len(bookings'[b].timeline) >= 1
       /\ \A b \in DOMAIN bookings :
            bookings'[b] # bookings[b] =>
                LET old == bookings[b].timeline
                    new == bookings'[b].timeline
                IN  /\ Len(new) = Len(old) + 1
                    /\ SubSeq(new, 1, Len(old)) = old
                    /\ new[Len(new)].event = bookings'[b].status
                    /\ bookings'[b].status # bookings[b].status
       /\ \A p \in Callers :
            (WriteStep(p) /\ callers'[p].result = "ok") =>
                LET b == callers[p].id
                IN  /\ bookings'[b] # bookings[b]
                    /\ bookings'[b].status = targetStatus(callers[p].kind)
                    /\ callers'[p].ret = bookings'[b]]_vars

\* a cancel of a departed booking returned BOOKED, DEPARTED, CANCELLED
C9_Witness ==
    \E p \in Callers :
        /\ Succeeded(p) /\ callers[p].kind = "cancel"
        /\ Events(callers[p].ret.timeline) = <<"BOOKED", "DEPARTED", "CANCELLED">>
        /\ bookings[callers[p].id] = callers[p].ret

----------------------------------------------------------------------------
(* Properties of createBooking *)

Creators == 1..NumCreators

\* the creates that sent an insert of ref_id and have returned
Inserted(ref_id) ==
    {c \in Creators : /\ creators[c].pc = "done"
                      /\ creators[c].doc # NoDoc
                      /\ creators[c].doc.ref_id = ref_id}

(* C10: no two stored bookings have the same ref_id; of the creates that
   computed the same ref_id and have returned, exactly one has succeeded and
   every other has failed with DuplicateRefId, and each stored booking is the
   one insert of a create that succeeded (a failed create inserts nothing
   later). *)
C10_UniqueRefId ==
    /\ \A i, j \in DOMAIN bookings : i # j => bookings[i].ref_id # bookings[j].ref_id
    /\ \A c \in Creators :
        (creators[c].pc = "done" /\ creators[c].doc # NoDoc) =>
            LET same == Inserted(creators[c].doc.ref_id)
            IN  /\ Cardinality({d \in same : creators[d].result = "ok"}) = 1
                /\ \A d \in same :
                    creators[d].result # "ok" =>
                        ErrorKind(creators[d].result) = "DuplicateRefId"
    /\ Len(bookings) = Cardinality({c \in Creators : creators[c].result = "ok"})
    /\ \A c \in Creators :
        creators[c].pc \in {"idle", "querying", "found", "inserting"} =>
            creators[c].result = "none"

\* two creates read the same maximum of the day and computed the same ref_id;
\* one insert succeeded and the other failed with DuplicateRefId
C10_Witness ==
    \E c, d \in Creators :
        /\ c # d /\ creators[c].pc = "done" /\ creators[d].pc = "done"
        /\ creators[c].doc # NoDoc /\ creators[d].doc # NoDoc
        /\ creators[c].last = creators[d].last
        /\ creators[c].doc.ref_id = creators[d].doc.ref_id
        /\ creators[c].result = "ok"
        /\ ErrorKind(creators[d].result) = "DuplicateRefId"
        /\ Len(bookings) = 1

(* C14: a create that has returned has failed with InvalidFlightReference
   exactly when some entry of its flightIds is the _id of no flight, and a
   create that failed so has computed no ref_id and stored nothing; a list
   whose entries are all flights, also one that names a flight twice, is not
   refused. *)
C14_InvalidExactlyWhenUnresolved ==
    \A c \in Creators :
        creators[c].pc = "done" =>
            LET flightIds == creators[c].data.flightIds
                unresolved == \E i \in DOMAIN flightIds : flightIds[i] \notin Flights
            IN  /\ (ErrorKind(creators[c].result) = "InvalidFlightReference") <=> unresolved
                /\ ErrorKind(creators[c].result) = "InvalidFlightReference" =>
                        creators[c].doc = NoDoc

----------------------------------------------------------------------------
(* Properties of the lookup and of the checks before the write *)

\* the step of p in which the store answers its findBookingByIdentifier
FindStep(p) == callers[p].pc = "called" /\ callers'[p].pc # "called"

\* the stored bookings that an identifier names, by _id or by ref_id
Names(identifier) ==
    {b \in DOMAIN bookings :
        \/ identifier = ObjectId(b)
        \/ /\ ~identifier.isValid
           /\ toUpperCase(identifier.text.prefix) = bookings[b].ref_id.prefix
           /\ identifier.text.date = bookings[b].ref_id.date
           /\ identifier.text.suffix = bookings[b].ref_id.suffix}

(* C11: when the store answers the read of a cancel whose identifier names,
   by _id or by ref_id, a booking stored as ARRIVED, the cancel returns at
   once with the InvalidTransition error 'already ARRIVED', without building
   or sending an update, and no stored booking changes. *)
C11_CancelArrivedRefused ==
    [][\A p \in Callers :
        (/\ FindStep(p) /\ callers[p].kind = "cancel"
         /\ \E b \in Names(callers[p].arg) : bookings[b].status = "ARRIVED") =>
            /\ callers'[p].pc = "done"
            /\ callers'[p].result = MsgAlreadyArrived
            /\ ErrorKind(callers'[p].result) = "InvalidTransition"
            /\ callers'[p].seen = "ARRIVED"
            /\ bookings' = bookings]_vars

\* a cancel named an arrived booking by its ref_id, in lower case, and was
\* refused; the booking is still ARRIVED with its two events
C11_Witness ==
    \E p \in Callers :
        /\ callers[p].kind = "cancel" /\ Done(p)
        /\ ~callers[p].arg.isValid /\ callers[p].arg.text.prefix # BookPrefix
        /\ callers[p].result = MsgAlreadyArrived
        /\ bookings[callers[p].id].status = "ARRIVED"
        /\ Events(bookings[callers[p].id].timeline) = <<"BOOKED", "ARRIVED">>

(* C12: a depart, arrive or cancel that reads a status outside its allowed
   source statuses ({BOOKED} for depart, {BOOKED, DEPARTED} for arrive and
   cancel) returns at once with InvalidTransition, without sending an update,
   and no stored booking changes; a request that succeeds read a status inside
   them and was applied to a status inside them. *)
C12_OutsideAllowedRefused ==
    [][\A p \in Callers :
        /\ (FindStep(p) /\ callers'[p].id # 0 /\ callers[p].kind \in Kinds) =>
                LET b == callers'[p].id
                IN  /\ callers'[p].seen = bookings[b].status
                    /\ bookings[b].status \notin Allowed(callers[p].kind) =>
                            /\ callers'[p].pc = "done"
                            /\ ErrorKind(callers'[p].result) = "InvalidTransition"
                            /\ bookings' = bookings
                    /\ bookings[b].status \in Allowed(callers[p].kind) =>
                            callers'[p].pc = "checked"
        /\ (WriteStep(p) /\ callers'[p].result = "ok") =>
                /\ callers[p].seen \in Allowed(callers[p].kind)
                /\ bookings[callers[p].id].status \in Allowed(callers[p].kind)]_vars

\* a depart read DEPARTED and was refused, and the booking is as the
\* earlier depart left it
C12_Witness ==
    \E p \in Callers :
        /\ callers[p].kind = "depart" /\ Done(p) /\ callers[p].seen = "DEPARTED"
        /\ callers[p].result = MsgCannotDepart
        /\ Events(bookings[callers[p].id].timeline) = <<"BOOKED", "DEPARTED">>

(* C13: when the store answers the read of a depart, arrive, cancel or
   history whose identifier names no stored booking, neither by _id nor by
   ref_id, the request returns at once with NotFound and no stored booking
   changes. *)
C13_NotFound ==
    [][\A p \in Callers :
        (FindStep(p) /\ Names(callers[p].arg) = {}) =>
            /\ callers'[p].pc = "done"
            /\ ErrorKind(callers'[p].result) = "NotFound"
            /\ callers'[p].id = 0
            /\ bookings' = bookings]_vars

\* a history named, by a well-formed ref_id of another day, no booking of
\* the store, which holds a booking
C13_Witness ==
    \E p \in Callers :
        /\ callers[p].kind = "history" /\ Done(p)
        /\ ~callers[p].arg.isValid
        /\ Len(bookings) = 1 /\ bookings[1].ref_id.date # callers[p].arg.text.date
        /\ callers[p].result = MsgNotFound

----------------------------------------------------------------------------
(* Properties of the stored record *)

NotBlank(ch) == ch # " "

\* code is the submitted airport code in upper case, without blanks
Normalised(code, submitted) == code = toUpperCase(SelectSeq(submitted, NotBlank))

(* C15: a history that names by its returned ref_id a booking that a create
   stored and that no request has moved since (it reads BOOKED) returns the
   ref_id, the submitted airport codes in upper case without surrounding
   blanks, the submitted pieces and weight, the submitted flights in their
   order, the status BOOKED and a timeline of exactly one entry, BOOKED. *)
C15_CreateThenHistory ==
    \A p \in Callers : \A c \in Creators :
        (/\ Succeeded(p) /\ callers[p].kind = "history" /\ callers[p].seen = "BOOKED"
         /\ creators[c].result = "ok"
         /\ ~callers[p].arg.isValid /\ callers[p].arg.text = creators[c].doc.ref_id) =>
            LET data == creators[c].data
                ret == callers[p].ret
            IN  /\ ret.ref_id = creators[c].doc.ref_id
                /\ Normalised(ret.origin, data.origin)
                /\ Normalised(ret.destination, data.destination)
                /\ ret.pieces = data.pieces
                /\ ret.weight_kg = data.weight_kg
                /\ [i \in DOMAIN ret.flightIds |-> ret.flightIds[i]._id] = data.flightIds
                /\ ret.status = "BOOKED"
                /\ Events(ret.timeline) = <<"BOOKED">>

\* the booking was submitted with codes in lower case and with blanks, 12
\* pieces and one flight, and the history named it by the returned ref_id
C15_Witness ==
    \E p \in Callers : \E c \in Creators :
        /\ Succeeded(p) /\ callers[p].kind = "history" /\ callers[p].seen = "BOOKED"
        /\ creators[c].result = "ok"
        /\ ~callers[p].arg.isValid /\ callers[p].arg.text = creators[c].doc.ref_id
        /\ creators[c].data.pieces = 12
        /\ creators[c].data.origin # callers[p].ret.origin
        /\ creators[c].data.flightIds = <<1>>

(* C16: a booking stored as CANCELLED never changes again: a depart, arrive
   or cancel that reads it returns at once with InvalidTransition, one whose
   conditional write is applied to it fails with ConcurrencyConflict, neither
   changes its status or timeline, and no timeline ever holds a second
   CANCELLED entry. *)
C16_CancelledTerminal ==
    [][/\ \A b \in DOMAIN bookings :
            bookings[b].status = "CANCELLED" =>
                /\ bookings'[b] = bookings[b]
                /\ \A p \in Callers :
                    /\ (FindStep(p) /\ callers'[p].id = b /\ callers[p].kind \in Kinds) =>
                            /\ callers'[p].pc = "done"
                            /\ ErrorKind(callers'[p].result) = "InvalidTransition"
                    /\ (WriteStep(p) /\ callers[p].id = b) =>
                            ErrorKind(callers'[p].result) = "ConcurrencyConflict"
       /\ \A b \in DOMAIN bookings' : Count(bookings'[b].timeline, "CANCELLED") <= 1]_vars

\* after a cancel had returned with success, a depart, an arrive or a cancel
\* was called, read CANCELLED and failed; the timeline ends with the one
\* CANCELLED entry
C16_Witness ==
    \E p, q \in Callers :
        /\ Succeeded(p) /\ callers[p].kind = "cancel"
        /\ Failed(q) /\ callers[q].id = callers[p].id /\ callers[q].seen = "CANCELLED"
        /\ ~Concurrent(p, q)
        /\ bookings[callers[p].id] = callers[p].ret

\* the fields of a stored booking other than status and timeline
Cargo(doc) ==
    <<doc.ref_id, doc.origin, doc.destination, doc.pieces, doc.weight_kg, doc.flightIds>>

(* C17: a booking has its ref_id, BOOK-date-sequence, from the step that
   stores it; no step of a depart, arrive, cancel or history removes a booking
   or changes its ref_id, origin, destination, pieces, weight or flights, and a
   request that succeeds returns them as they are stored. *)
C17_OnlyStatusAndTimeline ==
    [][/\ \A b \in DOMAIN bookings :
            b \in DOMAIN bookings' /\ Cargo(bookings'[b]) = Cargo(bookings[b])
       /\ \A b \in DOMAIN bookings' \ DOMAIN bookings :
            /\ bookings'[b].ref_id.prefix = BookPrefix
            /\ Len(bookings'[b].ref_id.suffix) >= RefIdPadWidth
            /\ \E c \in Creators : creators[c].pc = "inserting" /\ creators'[c].result = "ok"
       /\ \A p \in Callers :
            (callers'[p].result = "ok" /\ callers[p].result # "ok") =>
                LET doc == bookings'[callers'[p].id]
                    ret == callers'[p].ret
                IN  /\ ret.ref_id = doc.ref_id
                    /\ ret.origin = doc.origin /\ ret.destination = doc.destination
                    /\ ret.pieces = doc.pieces /\ ret.weight_kg = doc.weight_kg]_vars

\* a booking with flights was moved twice and a history then returned it,
\* named by its ref_id
C17_Witness ==
    \E p \in Callers :
        /\ Succeeded(p) /\ callers[p].kind = "history" /\ ~callers[p].arg.isValid
        /\ Len(callers[p].ret.timeline) = 3
        /\ bookings[callers[p].id].flightIds = <<1>>
        /\ bookings[callers[p].id].pieces = 12

----------------------------------------------------------------------------
(* Termination *)

Rank(pc) ==
    CASE pc = "idle" -> 0
      [] pc \in {"called", "querying"} -> 1
      [] pc \in {"checked", "found"} -> 2
      [] pc \in {"issued", "inserting"} -> 3
      [] pc = "done" -> 4

\* a create that has started and not finished can take its next step
CanStepCreate(c) ==
    /\ creators[c].pc = "querying" => ENABLED CreateFindLast(c)
    /\ creators[c].pc = "found" => ENABLED CreatePrepare(c)
    /\ creators[c].pc = "inserting" => ENABLED CreateInsert(c)

\* every step of a request moves it forward: at most four steps from the
\* call to the return, of which at most one applies a conditional write
Forward ==
    /\ \A p \in Callers :
            callers'[p] # callers[p] =>
                \/ Rank(callers'[p].pc) > Rank(callers[p].pc)
                \/ callers[p].pc = "done" /\ callers'[p] = IdleCaller
    /\ \A c \in Creators :
            creators'[c] # creators[c] => Rank(creators'[c].pc) > Rank(creators[c].pc)

(* C18: a create, depart, arrive, cancel or history that has been called and
   has not returned can always take its next step, whatever the state of the
   other requests; each of its steps moves it forward, so that it returns
   within four steps and sends at most one conditional write, which is not
   repeated when it matches nothing; and when the store answers and the
   continuations run, every request returns, with success or with an error. *)
C18_Terminates ==
    /\ [](\A p \in Callers : CanStep(p))
    /\ [](\A c \in Creators : CanStepCreate(c))
    /\ [][Forward]_vars
    /\ \A p \in Callers :
            (callers[p].pc \in {"called", "checked", "issued"})
                ~> (callers[p].pc = "done" /\ callers[p].result # "none")
    /\ \A c \in Creators :
            (creators[c].pc \in {"querying", "found", "inserting"})
                ~> (creators[c].pc = "done" /\ creators[c].result # "none")

\* two requests in flight together have both returned, one of them having
\* lost its conditional write, and the create has returned
C18_Witness ==
    \E p, q \in Callers :
        /\ p # q /\ Concurrent(p, q) /\ Done(p) /\ Done(q)
        /\ Kind(q) = "ConcurrencyConflict"
        /\ creators[1].pc = "done"

----------------------------------------------------------------------------
(* Independence of the bookings *)

\* p has returned and was the only request on its booking since the last
\* Settle
Alone(p) == Done(p) /\ callers[p].id # 0 /\ OnlyOn({p}, callers[p].id)

(* C19: a stored booking changes only in the step that applies the
   conditional write of a request that found this booking, and that step
   changes no other booking; what a request reads and whether its write is
   applied depend on the status of its own booking alone; and a request that
   was the only one on its booking succeeds exactly when it read an allowed
   status and otherwise fails with InvalidTransition, never with
   ConcurrencyConflict, whatever requests run on other bookings at the same
   time. *)
C19_NoInterference ==
    [][/\ \A b \in DOMAIN bookings :
            bookings'[b] # bookings[b] =>
                \E p \in Callers : WriteStep(p) /\ callers[p].id = b
       /\ \A p \in Callers :
            /\ WriteStep(p) =>
                    /\ \A b \in DOMAIN bookings \ {callers[p].id} : bookings'[b] = bookings[b]
                    /\ (callers'[p].result = "ok") <=>
                            (bookings[callers[p].id].status \in Allowed(callers[p].kind))
            /\ (FindStep(p) /\ callers'[p].id # 0) =>
                    /\ callers'[p].seen = bookings[callers'[p].id].status
                    /\ (callers'[p].pc = "checked") <=>
                            (bookings[callers'[p].id].status \in Allowed(callers[p].kind))
            /\ Alone(p)' =>
                    /\ Succeeded(p)' <=> (callers'[p].seen \in Allowed(callers'[p].kind))
                    /\ Failed(p)' => ErrorKind(callers'[p].result) = "InvalidTransition"]_vars

\* a cancel of one booking and an arrive of the other were in flight
\* together, and both succeeded
C19_Witness ==
    \E p, q \in Callers :
        /\ Concurrent(p, q) /\ callers[p].id = 1 /\ callers[q].id = 2
        /\ Succeeded(p) /\ callers[p].kind = "cancel"
        /\ Succeeded(q) /\ callers[q].kind = "arrive"
        /\ bookings[1].status = "CANCELLED" /\ bookings[2].status = "ARRIVED"

----------------------------------------------------------------------------
(* Properties of the route finder *)

\* the local calendar day of an instant at the server
LocalDay(t) == (t + zone * MsPerTick) \div MsPerDay

\* the airport code that a query names
Code(submitted) == toUpperCase(SelectSeq(submitted, NotBlank))

(* C20: every transit route returned has a first leg that starts at the
   origin of the query and departs on the calendar day of the query's date, a
   second leg that starts at the destination of the first leg, the transit
   city, and ends at the destination of the query, and a second leg that
   departs no earlier than the first leg arrives and no later than the end of
   the calendar day after the day the first leg arrives. *)
C20_TransitRule ==
    finder.pc = "done" =>
        \A i \in DOMAIN finder.result.transit :
            LET route == finder.result.transit[i]
            IN  /\ route.firstLeg.origin = Code(finder.origin)
                /\ LocalDay(route.firstLeg.departureDateTime) = finder.departureDate
                /\ route.secondLeg.origin = route.firstLeg.destination
                /\ route.transitCity = route.firstLeg.destination
                /\ route.secondLeg.destination = Code(finder.destination)
                /\ route.secondLeg.departureDateTime >= route.firstLeg.arrivalDateTime
                /\ LocalDay(route.secondLeg.departureDateTime)
                        <= LocalDay(route.firstLeg.arrivalDateTime) + 1

\* the airports that the query names
Origin == Code(finder.origin)
Destination == Code(finder.destination)

\* a flight that may open a transit route of the query
FirstLegEligible(f1) ==
    /\ f1.origin = Origin
    /\ f1.destination # Destination
    /\ LocalDay(f1.departureDateTime) = finder.departureDate

\* a flight that may continue the first leg f1 to the destination
SecondLegEligible(f1, f2) ==
    /\ f2.origin = f1.destination
    /\ f2.destination = Destination
    /\ f2.departureDateTime >= f1.arrivalDateTime
    /\ LocalDay(f2.departureDateTime) <= LocalDay(f1.arrivalDateTime) + 1

\* the places of the transit list that hold the pair of f1 and f2
RoutesOf(f1, f2) ==
    {i \in DOMAIN finder.result.transit :
        /\ finder.result.transit[i].firstLeg.id = f1._id
        /\ finder.result.transit[i].secondLeg.id = f2._id}

(* C21: for every flight f1 of the collection from the origin to another city
   than the destination that departs on the calendar day of the query's date,
   and every flight f2 from the destination of f1 to the destination of the
   query that departs no earlier than f1 arrives and no later than the end of
   the day after, the transit list holds exactly one route with first leg f1
   and second leg f2; routes through one transit city by different first legs
   are separate entries. *)
C21_EveryPairOnce ==
    finder.pc = "done" =>
        \A f1 \in catalog, f2 \in catalog :
            FirstLegEligible(f1) /\ SecondLegEligible(f1, f2)
                => Cardinality(RoutesOf(f1, f2)) = 1

\* a flight of the collection from the origin to the destination of the query
Direct(f) == f.origin = Origin /\ f.destination = Destination

(* C22 as stated: a flight of the collection from the origin to the
   destination of the query appears in no returned transit route, and no
   returned transit route has the destination of the query as its transit
   city. *)
C22_DirectOnlyInDirect ==
    finder.pc = "done" =>
        \A i \in DOMAIN finder.result.transit :
            /\ finder.result.transit[i].transitCity # Destination
            /\ \A f \in catalog :
                    Direct(f) =>
                        /\ finder.result.transit[i].firstLeg.id # f._id
                        /\ finder.result.transit[i].secondLeg.id # f._id

(* C22 amended: a flight of the collection from the origin to the destination
   of the query is never the first leg of a returned transit route, and no
   returned transit route has the destination of the query as its transit
   city or as the destination of its first leg. *)
C22_DirectNeverFirstLeg ==
    finder.pc = "done" =>
        \A i \in DOMAIN finder.result.transit :
            /\ finder.result.transit[i].transitCity # Destination
            /\ finder.result.transit[i].firstLeg.destination # Destination
            /\ \A f \in catalog :
                    Direct(f) => finder.result.transit[i].firstLeg.id # f._id

\* a direct flight is returned, a flight from the destination to the destination
\* departs after it has arrived, and a transit route is returned as well
C22_Witness ==
    /\ finder.pc = "done"
    /\ \E f \in catalog, g \in catalog :
            /\ Direct(f)
            /\ \E i \in DOMAIN finder.result.direct :
                    finder.result.direct[i].flight.id = f._id
            /\ g.origin = Destination /\ g.destination = Destination
            /\ g.departureDateTime >= f.arrivalDateTime
    /\ Len(finder.result.transit) > 0

\* the routes at places i < j of a list are in the order in which
\* getTransitRoutes came upon them: first legs by departure, and for one first
\* leg its second legs by departure
EncounterOrder(a, b) ==
    \/ a.firstLeg.departureDateTime < b.firstLeg.departureDateTime
    \/ /\ a.firstLeg.id = b.firstLeg.id
       /\ a.secondLeg.departureDateTime <= b.secondLeg.departureDateTime
    \/ /\ a.firstLeg.id # b.firstLeg.id
       /\ a.firstLeg.departureDateTime = b.firstLeg.departureDateTime

(* C23: the transit list returned is in order of non-decreasing
   totalDuration, and routes of equal totalDuration are in encounter order. *)
C23_SortedStable ==
    finder.pc = "done" =>
        \A i \in DOMAIN finder.result.transit, j \in DOMAIN finder.result.transit :
            i < j =>
                /\ finder.result.transit[i].totalDuration
                        <= finder.result.transit[j].totalDuration
                /\ finder.result.transit[i].totalDuration
                        = finder.result.transit[j].totalDuration
                    => EncounterOrder(finder.result.transit[i], finder.result.transit[j])

\* two routes of equal totalDuration are returned
C23_Witness ==
    /\ finder.pc = "done"
    /\ \E i \in DOMAIN finder.result.transit, j \in DOMAIN finder.result.transit :
            /\ i < j
            /\ finder.result.transit[i].totalDuration
                    = finder.result.transit[j].totalDuration
            /\ finder.result.transit[i].secondLeg.id
                    # finder.result.transit[j].secondLeg.id

\* the flights of the collection that the direct list is to hold
DirectMatches ==
    {f \in catalog : Direct(f) /\ LocalDay(f.departureDateTime) = finder.departureDate}

\* the pairs of flights that the transit list is to hold
TransitMatches ==
    {pair \in catalog \X catalog :
        FirstLegEligible(pair[1]) /\ SecondLegEligible(pair[1], pair[2])}

(* C24: the direct list returned holds exactly the flights of the collection
   from the origin to the destination of the query that depart on the calendar
   day of the query's date, each once, in ascending order of departure, each
   with totalDuration the minutes from its departure to its arrival; when no
   flight matches, the direct and the transit list are both empty. *)
C24_DirectExact ==
    finder.pc = "done" =>
        /\ Len(finder.result.direct) = Cardinality(DirectMatches)
        /\ \A f \in DirectMatches :
                \E i \in DOMAIN finder.result.direct :
                    finder.result.direct[i].flight.id = f._id
        /\ \A i \in DOMAIN finder.result.direct :
                \E f \in DirectMatches :
                    /\ finder.result.direct[i].flight.id = f._id
                    /\ finder.result.direct[i].flight.departureDateTime
                            = f.departureDateTime
                    /\ finder.result.direct[i].totalDuration * MsPerMinute
                            = f.arrivalDateTime - f.departureDateTime
        /\ \A i \in DOMAIN finder.result.direct, j \in DOMAIN finder.result.direct :
                i < j => finder.result.direct[i].flight.departureDateTime
                            <= finder.result.direct[j].flight.departureDateTime
        /\ DirectMatches = {} /\ TransitMatches = {}
                => finder.result.direct = <<>> /\ finder.result.transit = <<>>

\* the whole number of minutes nearest to a number of milliseconds, a half
\* counted upwards
Nearest(minutes, ms) ==
    /\ 2 * minutes * MsPerMinute - MsPerMinute <= 2 * ms
    /\ 2 * ms < 2 * minutes * MsPerMinute + MsPerMinute

\* the time in the air of the two legs of a route
FlyingTime(route) ==
    (route.firstLeg.arrivalDateTime - route.firstLeg.departureDateTime)
        + (route.secondLeg.arrivalDateTime - route.secondLeg.departureDateTime)

\* every flight of the collection arrives after it departs
ArrivesAfterDeparts == \A f \in catalog : f.arrivalDateTime > f.departureDateTime

(* C25 as stated: for every transit route returned, layoverDuration is the
   minutes from the arrival of the first leg to the departure of the second
   and is not negative, totalDuration is the minutes from the departure of the
   first leg to the arrival of the second, and totalDuration is greater than
   layoverDuration, whenever every flight of the collection arrives after it
   departs. *)
C25_TotalExceedsLayover ==
    finder.pc = "done" /\ ArrivesAfterDeparts =>
        \A i \in DOMAIN finder.result.transit :
            LET route == finder.result.transit[i]
            IN  /\ Nearest(route.layoverDuration,
                           route.secondLeg.departureDateTime
                                - route.firstLeg.arrivalDateTime)
                /\ route.layoverDuration >= 0
                /\ Nearest(route.totalDuration,
                           route.secondLeg.arrivalDateTime
                                - route.firstLeg.departureDateTime)
                /\ route.totalDuration > route.layoverDuration

(* C25 amended: layoverDuration and totalDuration are those times rounded to
   the nearest whole minute, layoverDuration is not negative, totalDuration is
   not less than layoverDuration, and it is greater when the two legs are in
   the air for a minute or more together. *)
C25_Durations ==
    finder.pc = "done" /\ ArrivesAfterDeparts =>
        \A i \in DOMAIN finder.result.transit :
            LET route == finder.result.transit[i]
            IN  /\ Nearest(route.layoverDuration,
                           route.secondLeg.departureDateTime
                                - route.firstLeg.arrivalDateTime)
                /\ route.layoverDuration >= 0
                /\ Nearest(route.totalDuration,
                           route.secondLeg.arrivalDateTime
                                - route.firstLeg.departureDateTime)
                /\ route.totalDuration >= route.layoverDuration
                /\ FlyingTime(route) >= MsPerMinute
                        => route.totalDuration > route.layoverDuration

\* the legs 08:00-10:30 and 14:00-15:30 are returned with layover 210 and
\* total 450
C25_Witness ==
    /\ finder.pc = "done"
    /\ ArrivesAfterDeparts
    /\ catalog = ExampleFlights
    /\ Len(finder.result.transit) = 1
    /\ finder.result.transit[1].layoverDuration = 210
    /\ finder.result.transit[1].totalDuration = 450

----------------------------------------------------------------------------
(* Properties of getBookingHistory *)

\* how often an entry occurs in a timeline
Occurrences(timeline, entry) ==
    Cardinality({i \in DOMAIN timeline : timeline[i] = entry})

\* the two timelines hold the same entries, each as often
SameEntries(s, t) ==
    /\ Len(s) = Len(t)
    /\ \A entry \in Range(s) \cup Range(t) : Occurrences(s, entry) = Occurrences(t, entry)

Ascending(timeline) ==
    \A i \in DOMAIN timeline, j \in DOMAIN timeline :
        i < j => timeline[i].timestamp <= timeline[j].timestamp

\* the step of p in which it is called
CallStep(p) == callers[p].pc = "idle" /\ callers'[p].pc = "called"

(* C26: a history that finds the booking returns its fields as they are
   stored, with the flights loaded, and a timeline that holds exactly the
   entries of the stored timeline, each as often, in ascending order of
   timestamp; no step of a history changes a stored booking. *)
C26_HistoryReadOnly ==
    [][\A p \in Callers :
        /\ CallStep(p) /\ callers'[p].kind = "history" => bookings' = bookings
        /\ FindStep(p) /\ callers[p].kind = "history" =>
            /\ bookings' = bookings
            /\ callers'[p].pc = "done"
            /\ callers'[p].result = "ok" =>
                LET doc == bookings[callers'[p].id]
                    ret == callers'[p].ret
                IN  /\ ret.ref_id = doc.ref_id
                    /\ ret.origin = doc.origin
                    /\ ret.destination = doc.destination
                    /\ ret.pieces = doc.pieces
                    /\ ret.weight_kg = doc.weight_kg
                    /\ ret.status = doc.status
                    /\ [i \in DOMAIN ret.flightIds |-> ret.flightIds[i]._id]
                            = doc.flightIds
                    /\ SameEntries(ret.timeline, doc.timeline)
                    /\ Ascending(ret.timeline)]_vars

\* a history has returned, in another order, the three entries of a stored
\* timeline that is not in ascending order
C26_Witness ==
    \E p \in Callers :
        /\ Succeeded(p) /\ callers[p].kind = "history"
        /\ bookings[callers[p].id].timeline # callers[p].ret.timeline
        /\ SameEntries(callers[p].ret.timeline, bookings[callers[p].id].timeline)
        /\ ~Ascending(bookings[callers[p].id].timeline)
        /\ Len(callers[p].ret.timeline) = 3

\* the identifier that is the ref_id of a stored booking
RefIdOf(b) == [isValid |-> FALSE, oid |-> 0, text |-> bookings[b].ref_id]

(* C27: a depart, arrive, cancel or history that names a stored booking by
   its ref_id finds that booking, and its request stands after the lookup and
   the check exactly as it would had it named the booking by its _id in the
   same state; the steps that follow use the _id found alone. *)
C27_RefIdAsId ==
    [][\A p \in Callers : \A b \in DOMAIN bookings :
        FindStep(p) /\ callers[p].arg = RefIdOf(b) =>
            /\ callers'[p].id = b
            /\ callers'[p] = afterFind(callers[p], findBookingByIdentifier(ObjectId(b)))
            /\ bookings' = bookings]_vars

\* a cancel that named an ARRIVED booking by its ref_id was refused
C27_Witness ==
    \E p \in Callers :
        /\ Done(p)
        /\ callers[p].id \in DOMAIN bookings
        /\ callers[p].arg = RefIdOf(callers[p].id)
        /\ callers[p].kind = "cancel"
        /\ callers[p].result = MsgAlreadyArrived

----------------------------------------------------------------------------
(* Properties of the create endpoint *)

\* the request of c was answered 400 by the validation
Rejected(c) ==
    creators[c].pc = "done" /\ ErrorKind(creators[c].result) = "ValidationError"

\* the request of c was answered without any query or insert sent to the store
NoStoreInteraction(c) ==
    /\ creators[c].last = <<>>
    /\ creators[c].doc = NoDoc
    /\ bookings = <<>>

(* C28: the create endpoint rejects with a validation error, before any
   interaction with the store, exactly the bodies that lack origin,
   destination, pieces or weight_kg, or have pieces < 1 or weight_kg < 0;
   every other body, pieces = 1 and weight_kg = 0 among them, is passed on to
   createBooking. *)
C28_RejectsExactlyInvalid ==
    \A c \in Creators :
        creators[c].pc # "idle" =>
            LET body == creators[c].data
            IN  /\ Rejected(c) <=>
                        \/ body.missing # {}
                        \/ body.pieces < 1
                        \/ body.weight_kg < 0
                /\ Rejected(c) => NoStoreInteraction(c)
                /\ ~Rejected(c) => ErrorKind(creators[c].result) \in {"none"}

----------------------------------------------------------------------------
(* Properties of the ref_id hook *)

\* the greatest of a set of numbers
Max(S) == CHOOSE n \in S : \A m \in S : m <= n

\* the sequence numbers stored for a day
SuffixesOf(date) ==
    {parseInt(bookings[b].ref_id.suffix) :
        b \in {b \in DOMAIN bookings : bookings[b].ref_id.date = date}}

\* the sequence number that is due on a day
DueSequence(date) ==
    IF SuffixesOf(date) = {} THEN 1 ELSE 1 + Max(SuffixesOf(date))

(* C29: when creates do not overlap, the ref_id that a create computes is
   BOOK, the day, and the decimal, zero-padded to six digits, of 1 when no
   booking of that day is stored and of 1 + the greatest sequence number
   stored for that day otherwise; it is the ref_id of no stored booking. *)
C29_NextSequence ==
    [][\A c \in Creators :
        creators[c].pc = "found" /\ creators'[c].pc = "inserting" =>
            LET ref_id == creators'[c].doc.ref_id
            IN  /\ ref_id.prefix = BookPrefix
                /\ ref_id.date = creators[c].today
                /\ ref_id.suffix
                        = padStart(toString(DueSequence(creators[c].today)), RefIdPadWidth)
                /\ \A b \in DOMAIN bookings : bookings[b].ref_id # ref_id]_vars

----------------------------------------------------------------------------
(* C30: no booking that a create stored is ever in status DELIVERED or has a
   DELIVERED entry in its timeline, whatever creates, departs, arrives,
   cancels and histories are run and however their steps interleave; no
   request returns a booking that is or was DELIVERED. *)
C30_NeverDelivered ==
    /\ \A b \in DOMAIN bookings :
            /\ bookings[b].status \in Statuses \ {"DELIVERED"}
            /\ \A i \in DOMAIN bookings[b].timeline :
                    bookings[b].timeline[i].event \in Statuses \ {"DELIVERED"}
    /\ \A p \in Callers :
            Succeeded(p) =>
                /\ callers[p].ret.status # "DELIVERED"
                /\ \A i \in DOMAIN callers[p].ret.timeline :
                        callers[p].ret.timeline[i].event # "DELIVERED"

\* a booking has departed and arrived, and a history of it was returned
\* while a request to cancel it was refused
C30_Witness ==
    \E b \in DOMAIN bookings :
        /\ Events(bookings[b].timeline) = <<"BOOKED", "DEPARTED", "ARRIVED">>
        /\ \E p \in Callers, q \in Callers :
                /\ Succeeded(p) /\ callers[p].kind = "history"
                /\ callers[p].ret.status = "ARRIVED"
                /\ Failed(q) /\ callers[q].kind = "cancel"

----------------------------------------------------------------------------
(* Properties of the durations *)

\* floor((ms + 30000) / 60000)
RoundedMinutes(ms) == (ms + MsPerMinute \div 2) \div MsPerMinute

(* C31: every totalDuration of a direct flight returned and every
   layoverDuration and totalDuration of a transit route returned is the
   difference of its two instants, in milliseconds, divided by 60000 and
   rounded to the nearest whole number, a remainder of 30 seconds or more
   rounded up: floor((end - start + 30000) / 60000). *)
C31_RoundedMinutes ==
    finder.pc = "done" =>
        /\ \A i \in DOMAIN finder.result.direct :
            LET route == finder.result.direct[i]
                ms == route.flight.arrivalDateTime - route.flight.departureDateTime
            IN  /\ route.totalDuration = RoundedMinutes(ms)
                /\ Nearest(route.totalDuration, ms)
        /\ \A i \in DOMAIN finder.result.transit :
            LET route == finder.result.transit[i]
                layover == route.secondLeg.departureDateTime
                                - route.firstLeg.arrivalDateTime
                total == route.secondLeg.arrivalDateTime
                                - route.firstLeg.departureDateTime
            IN  /\ route.layoverDuration = RoundedMinutes(layover)
                /\ Nearest(route.layoverDuration, layover)
                /\ route.totalDuration = RoundedMinutes(total)
                /\ Nearest(route.totalDuration, total)

\* a transit route is returned whose layover of exactly 30 seconds counts as
\* one minute and whose total of one minute and a millisecond counts as one
C31_Witness ==
    /\ finder.pc = "done"
    /\ \E i \in DOMAIN finder.result.transit :
            LET route == finder.result.transit[i]
            IN  /\ route.secondLeg.departureDateTime - route.firstLeg.arrivalDateTime
                        = MsPerMinute \div 2
                /\ route.layoverDuration = 1
                /\ route.secondLeg.arrivalDateTime - route.firstLeg.departureDateTime
                        = MsPerMinute + 1
                /\ route.totalDuration = 1

----------------------------------------------------------------------------
(* Properties of the timeline hook *)

\* the step in which save() is called on the edited document and its hooks run
SaveStep == editor.pc = "loaded" /\ editor'.pc # "loaded"

\* the step in which the store applies the update of the edited document
StoreStep == editor.pc = "saving" /\ editor'.pc = "done"

LastEvent(timeline) == timeline[Len(timeline)].event

(* C32: when a document that was loaded from the collection is saved, the
   hook leaves its status as the caller set it; when that status differs from
   the status loaded and the last entry of the timeline has another event, the
   hook appends exactly one entry, whose event is the new status, and in every
   other case (the last entry has the event already, or the status is the one
   loaded) it leaves the timeline as it is; the store then holds the document
   as the hook left it. *)
C32_HookAppendsOnce ==
    [][/\ SaveStep =>
            LET before == editor'.edited
                after == editor'.doc
                changed == before.status # editor'.loaded.status
            IN  /\ after.status = before.status
                /\ IF changed /\ (Len(before.timeline) = 0
                                    \/ LastEvent(before.timeline) # before.status)
                   THEN /\ Len(after.timeline) = Len(before.timeline) + 1
                        /\ SubSeq(after.timeline, 1, Len(before.timeline))
                                = before.timeline
                        /\ LastEvent(after.timeline) = before.status
                   ELSE after.timeline = before.timeline
       /\ StoreStep => bookings'[editor.id] = editor.doc]_vars

\* a document was saved with a changed status whose entry the caller had
\* pushed already: the hook appended nothing and the store holds the one entry
C32_Witness ==
    /\ editor.pc = "done"
    /\ editor.edited # NoDoc
    /\ editor.edited.status # editor.loaded.status
    /\ LastEvent(editor.edited.timeline) = editor.edited.status
    /\ Len(editor.edited.timeline) = Len(editor.loaded.timeline) + 1
    /\ editor.doc = editor.edited
    /\ bookings[editor.id] = editor.doc

\* the step in which the store applies the insert of c
InsertStep(c) == creators[c].pc = "inserting" /\ creators'[c].result = "ok"

(* C40: the document that the first save of a booking stores has the status
   that the caller gave it and a timeline of exactly one entry, whose event is
   that status, whatever timeline the caller gave: a fixture that brings the
   entries BOOKED, DEPARTED, ARRIVED with the status ARRIVED is stored with
   the one entry ARRIVED. *)
C40_FirstSaveOneEntry ==
    [][\A c \in Creators :
        InsertStep(c) =>
            LET stored == bookings'[Len(bookings')]
            IN  /\ Len(bookings') = Len(bookings) + 1
                /\ stored.status = statusOf(creators[c].data)
                /\ Len(stored.timeline) = 1
                /\ stored.timeline[1].event = stored.status]_vars

\* the fixture with the status ARRIVED and three entries is stored with the
\* one entry ARRIVED
C40_Witness ==
    \E c \in Creators :
        /\ creators[c].result = "ok"
        /\ statusOf(creators[c].data) = "ARRIVED"
        /\ Events(timelineOf(creators[c].data)) = <<"BOOKED", "DEPARTED", "ARRIVED">>
        /\ Len(bookings) = 1
        /\ Events(bookings[1].timeline) = <<"ARRIVED">>
        /\ bookings[1].status = "ARRIVED"

----------------------------------------------------------------------------
(* C33: in every reachable state the status of every stored booking is the
   event of the last entry of its stored timeline, however the steps of
   creates, departs, arrives, cancels and histories interleave, and every
   document that a depart, arrive or cancel returns is so as well. *)
C33_StatusIsLastEvent ==
    /\ \A b \in DOMAIN bookings :
            /\ Len(bookings[b].timeline) >= 1
            /\ bookings[b].status = LastEvent(bookings[b].timeline)
    /\ \A p \in Callers :
            Succeeded(p) /\ callers[p].kind \in Kinds =>
                callers[p].ret.status = LastEvent(callers[p].ret.timeline)

\* a depart and an arrive in flight together both read BOOKED and both
\* wrote, the arrive last
C33_Witness ==
    \E b \in DOMAIN bookings : \E p, q \in Callers :
        /\ On(p, "depart", b) /\ On(q, "arrive", b) /\ Concurrent(p, q)
        /\ callers[p].seen = "BOOKED" /\ callers[q].seen = "BOOKED"
        /\ Succeeded(p) /\ Succeeded(q)
        /\ Events(bookings[b].timeline) = <<"BOOKED", "DEPARTED", "ARRIVED">>
        /\ bookings[b].status = "ARRIVED"

----------------------------------------------------------------------------
(* C34: the timeline of a booking that a create stored never has more than
   three entries and never holds an event twice, whatever requests are made
   and however often; a depart, arrive or cancel succeeds only on a booking
   whose timeline has at most two entries, so that at most two of them ever
   succeed on one booking. *)
C34_AtMostTwoTransitions ==
    [][/\ \A b \in DOMAIN bookings' :
            /\ Len(bookings'[b].timeline) <= 3
            /\ \A event \in Statuses : Count(bookings'[b].timeline, event) <= 1
       /\ \A p \in Callers :
            (WriteStep(p) /\ callers'[p].result = "ok") =>
                /\ Len(bookings[callers[p].id].timeline) <= 2
                /\ Len(bookings'[callers[p].id].timeline)
                        = Len(bookings[callers[p].id].timeline) + 1]_vars

\* a booking has three entries, and a request made after the requests that
\* moved it had returned read its last status and was refused
C34_Witness ==
    \E b \in DOMAIN bookings : \E p \in Callers :
        /\ Len(bookings[b].timeline) = 3
        /\ Failed(p) /\ callers[p].id = b /\ callers[p].kind \in Kinds
        /\ callers[p].seen = bookings[b].status
        /\ \A q \in Callers \ {p} : ~Started(q)

----------------------------------------------------------------------------
(* C35: a booking stored as ARRIVED never changes again: a depart, arrive or
   cancel that reads it returns at once with InvalidTransition, one whose
   conditional write is applied to it fails with ConcurrencyConflict, and
   neither changes its status or its timeline. *)
C35_ArrivedAbsorbing ==
    [][\A b \in DOMAIN bookings :
        bookings[b].status = "ARRIVED" =>
            /\ bookings'[b] = bookings[b]
            /\ \A p \in Callers :
                /\ (FindStep(p) /\ callers'[p].id = b /\ callers[p].kind \in Kinds) =>
                        /\ callers'[p].pc = "done"
                        /\ ErrorKind(callers'[p].result) = "InvalidTransition"
                /\ (WriteStep(p) /\ callers[p].id = b) =>
                        ErrorKind(callers'[p].result) = "ConcurrencyConflict"]_vars

\* a depart and an arrive both read ARRIVED and were refused; the booking is
\* as the arrive of before left it
C35_Witness ==
    \E b \in DOMAIN bookings : \E p, q \in Callers :
        /\ On(p, "depart", b) /\ On(q, "arrive", b)
        /\ callers[p].seen = "ARRIVED" /\ callers[q].seen = "ARRIVED"
        /\ Kind(p) = "InvalidTransition" /\ Kind(q) = "InvalidTransition"
        /\ bookings[b].status = "ARRIVED"
        /\ Events(bookings[b].timeline) = <<"BOOKED", "DEPARTED", "ARRIVED">>

----------------------------------------------------------------------------
\* while p was between its read and its write, another request, in flight
\* with it, wrote to the booking
WroteBetween(p) ==
    \E q \in Callers \ {p} :
        /\ Succeeded(q) /\ callers[q].kind \in Kinds /\ callers[q].id = callers[p].id
        /\ Concurrent(p, q)
        /\ bookings[callers[p].id].status # callers[p].seen

(* C36: a depart, arrive or cancel that fails when the store answers its read
   fails with NotFound or InvalidTransition; one that fails when its
   conditional write is applied fails with ConcurrencyConflict, and only when
   another request, in flight with it, wrote to the booking after it had read
   it; so a request that was in flight with no other request never fails with
   ConcurrencyConflict. *)
C36_ConflictOnlyByRace ==
    [][\A p \in Callers :
        /\ (FindStep(p) /\ callers[p].kind \in Kinds /\ callers'[p].pc = "done") =>
                ErrorKind(callers'[p].result) \in {"NotFound", "InvalidTransition"}
        /\ (WriteStep(p) /\ callers'[p].result # "ok") =>
                /\ ErrorKind(callers'[p].result) = "ConcurrencyConflict"
                /\ WroteBetween(p)
        /\ (WriteStep(p) /\ bookings[callers[p].id].status = callers[p].seen) =>
                callers'[p].result = "ok"
        /\ (/\ Failed(p)' /\ callers'[p].kind \in Kinds
            /\ \A q \in Callers \ {p} : ~Concurrent(p, q)') =>
                ErrorKind(callers'[p].result) \in {"NotFound", "InvalidTransition"}]_vars

\* requests were made one after the other on one booking: a depart
\* succeeded, and the depart made after it had returned was refused
C36_Witness ==
    \E b \in DOMAIN bookings : \E p, q \in Callers :
        /\ p # q /\ ~Concurrent(p, q)
        /\ On(p, "depart", b) /\ Succeeded(p)
        /\ On(q, "depart", b) /\ callers[q].seen = "DEPARTED"
        /\ Kind(q) = "InvalidTransition"

----------------------------------------------------------------------------
(* C37: the timeline that a history returns lists the events in the order of
   the stored timeline, so that the event of its last entry is the status of
   the booking, also when the booking was moved by requests in flight
   together, which took their timestamps before their writes were applied. *)
C37_HistoryInStoredOrder ==
    [][\A p \in Callers :
        (FindStep(p) /\ callers[p].kind = "history" /\ callers'[p].result = "ok") =>
            LET doc == bookings[callers'[p].id]
                ret == callers'[p].ret
            IN  /\ Events(ret.timeline) = Events(doc.timeline)
                /\ LastEvent(ret.timeline) = doc.status
                /\ ret.status = doc.status]_vars

----------------------------------------------------------------------------
\* p is a depart and q an arrive or a cancel, in flight together, the only
\* requests on b, which was BOOKED when the first of them read it
DepartRace(b, p, q) ==
    /\ p # q /\ On(p, "depart", b)
    /\ Started(q) /\ callers[q].kind \in {"arrive", "cancel"} /\ callers[q].id = b
    /\ Concurrent(p, q)
    /\ BeganBooked({p, q}, b)

(* C38: when a depart and one arrive or cancel, in flight together, are the
   only requests on a booking that was BOOKED, the arrive or cancel never
   fails and, once it has returned, the stored status is its target; the
   conditional write of the depart succeeds exactly when it is applied before
   that of the other request; and once both have returned the timeline is
   BOOKED, DEPARTED, target when the depart succeeded and BOOKED, target when
   it failed. *)
C38_DepartRace ==
    [][\A b \in DOMAIN bookings' : \A p, q \in Callers :
        DepartRace(b, p, q)' =>
            LET target == targetStatus(callers'[q].kind)
            IN  /\ Done(q)' =>
                    /\ Succeeded(q)'
                    /\ bookings'[b].status = target
                /\ WriteStep(p) => ((callers'[p].result = "ok") <=> ~Succeeded(q))
                /\ (Done(p)' /\ Done(q)') =>
                    /\ Succeeded(p)' =>
                            Events(bookings'[b].timeline) = <<"BOOKED", "DEPARTED", target>>
                    /\ Failed(p)' =>
                            Events(bookings'[b].timeline) = <<"BOOKED", target>>]_vars

\* a depart and a cancel both read BOOKED; the depart wrote first and the
\* cancel, whose filter also accepts DEPARTED, wrote after it
C38_Witness ==
    \E b \in DOMAIN bookings : \E p, q \in Callers :
        /\ DepartRace(b, p, q)
        /\ callers[q].kind = "cancel"
        /\ callers[p].seen = "BOOKED" /\ callers[q].seen = "BOOKED"
        /\ Succeeded(p) /\ Succeeded(q)
        /\ Events(bookings[b].timeline) = <<"BOOKED", "DEPARTED", "CANCELLED">>

----------------------------------------------------------------------------
\* the bookings stored for a day
BookingsOf(date) == {b \in DOMAIN bookings : bookings[b].ref_id.date = date}

\* the days on which a create may run
Days == 0..DayOf(MaxTime)

(* C39: in every reachable state, for every day, the sequence numbers of the
   ref_ids stored for that day are exactly 1..n, n the number of the bookings
   stored for that day, without gap or repeat, however the steps of the
   creates interleave; a create that fails stores nothing and leaves the
   numbers as they are. *)
C39_DenseSequence ==
    [][/\ \A date \in Days :
            LET n == Cardinality(BookingsOf(date)')
            IN  /\ SuffixesOf(date)' = 1..n
                /\ Cardinality(SuffixesOf(date)') = n
       /\ \A b \in DOMAIN bookings' : bookings'[b].ref_id.date \in Days
       /\ \A c \in Creators :
            (creators'[c].pc = "done" /\ creators[c].pc # "done"
                /\ creators'[c].result # "ok") =>
                    bookings' = bookings]_vars

\* two bookings of one day are stored with the sequence numbers 1 and 2
C39_Witness ==
    /\ Len(bookings) = 2
    /\ bookings[1].ref_id.date = bookings[2].ref_id.date
    /\ parseInt(bookings[1].ref_id.suffix) = 1
    /\ parseInt(bookings[2].ref_id.suffix) = 2
    /\ \A c \in Creators : creators[c].pc = "done"

====
